---- MODULE Spec2Model ----
(***************************************************************************)
(* A model of the 6502 core of pabnes (src/src/cpu.rs): the CPU's          *)
(* registers, status byte and memory array, the Mem trait, the harness     *)
(* (load, reset, load_and_run, run) and one iteration of the loop of       *)
(* run_with_callback with every instruction handler.                       *)
(*                                                                         *)
(* Values keep their width: u8 values are 0..255, u16 values 0..65535.     *)
(* A panic (array index out of bounds, expect() on a missing opcode,       *)
(* arithmetic overflow in a build with overflow checks) is recorded in     *)
(* the field `fatal`; once it is set no later statement has an effect.     *)
(***************************************************************************)
EXTENDS Integers, Sequences, FiniteSets, TLC

VARIABLES
    reg_a,      \* CPU.reg_a : u8
    reg_x,      \* CPU.reg_x : u8
    reg_y,      \* CPU.reg_y : u8
    status,     \* CPU.status : CpuFlags, as its bits (u8)
    pc,         \* CPU.pc : u16
    sp,         \* CPU.sp : u8
    memory,     \* CPU.memory : [u8; 0xFFFF], as its non-zero cells (see MemAt)
    fatal,      \* NoFatal, or the panic that ended the program
    phase,      \* where the caller of the CPU is: see Next
    steps,      \* iterations of the run loop done in this run()
    pokes,      \* assignments and writes the caller has made since reset()
    entry,      \* history: the CPU as it was when the run loop was entered
    last,       \* history: what the last operation was and what it saw
    pre         \* history: the CPU as it was before the last operation

vars == <<reg_a, reg_x, reg_y, status, pc, sp, memory, fatal, phase, steps, pokes, entry, last, pre>>

-----------------------------------------------------------------------------
(* Program constants.                                                      *)

CARRY == \h01
ZERO == \h02
INTERRUPT_DISABLE == \h04
DECIMAL_MODE == \h08
BREAK == \h10
BREAK2 == \h20
OVERFLOW == \h40
NEGATIVE == \h80

STACK == \h0010
STACK_RESET == \hFD

\* The length of the memory array, [u8; 0xFFFF]: its indices are 0..0xFFFE.
MEMORY_LEN == \hFFFF
\* Where load() copies the program, and the reset vector it writes.
LOAD_BASE == \h8000
RESET_VECTOR == \hFFFC
\* CpuFlags::from_bits_truncate(0b100100)
STATUS_RESET == \h24

NoFatal == "none"
IndexOutOfBounds == "index out of bounds"
ArithmeticOverflow == "attempt to add with overflow"
OpcodeNotRecognized == "Opcode is not recognized"
ModeNotSupported == "mode is not supported"
SliceOutOfRange == "range end index out of range for slice"

-----------------------------------------------------------------------------
(* Bit operations on naturals, as Rust's &, | and ^ on u8 and u16.         *)

RECURSIVE BitAnd(_, _)
BitAnd(x, y) ==
    IF x = 0 \/ y = 0 THEN 0
    ELSE (x % 2) * (y % 2) + 2 * BitAnd(x \div 2, y \div 2)

RECURSIVE BitOr(_, _)
BitOr(x, y) ==
    IF x = 0 THEN y
    ELSE IF y = 0 THEN x
    ELSE (IF x % 2 = 1 \/ y % 2 = 1 THEN 1 ELSE 0) + 2 * BitOr(x \div 2, y \div 2)

RECURSIVE BitXor(_, _)
BitXor(x, y) ==
    IF x = 0 THEN y
    ELSE IF y = 0 THEN x
    ELSE ((x + y) % 2) + 2 * BitXor(x \div 2, y \div 2)

\* `v as u8` of a wider value.
AsU8(v) == v % 256
\* `v as i8` of a u8.
AsI8(v) == IF v >= 128 THEN v - 256 ELSE v
\* `v as u16` of an i8: sign extension.
I8AsU16(v) == IF v < 0 THEN v + 65536 ELSE v

\* u8::wrapping_add, u8::wrapping_sub, u16::wrapping_add
WrappingAdd8(a, b) == (a + b) % 256
WrappingSub8(a, b) == (a - b + 256) % 256
WrappingAdd16(a, b) == (a + b) % 65536

-----------------------------------------------------------------------------
(* The CPU as a value: the record the operators below transform.  The      *)
(* field overflow_checks is the build's setting (on in a debug build, off  *)
(* in a release build); it is not part of the CPU's state.  An operator    *)
(* that yields a value as well yields the record [cpu, val].               *)

Panic(c, what) == IF c.fatal # NoFatal THEN c ELSE [c EXCEPT !.fatal = what]

\* An assignment `self.f = v`: it happens only if the program has not panicked.
Put(c, f, v) == IF c.fatal # NoFatal THEN c ELSE [c EXCEPT ![f] = v]

\* The assignment `self.f = r` of a value r = [cpu, val] just computed.
PutVal(r, f) == Put(r.cpu, f, r.val)

\* A u16 addition `a + b` (or `a += b`) with Rust's overflow behaviour: a panic
\* when the build checks overflow, a wrapped result otherwise.
AddU16(c, a, b) ==
    IF a + b > 65535
    THEN IF c.overflow_checks
         THEN [cpu |-> Panic(c, ArithmeticOverflow), val |-> 0]
         ELSE [cpu |-> c, val |-> (a + b) % 65536]
    ELSE [cpu |-> c, val |-> a + b]

\* A u16 subtraction `a - b`, likewise.
SubU16(c, a, b) ==
    IF a - b < 0
    THEN IF c.overflow_checks
         THEN [cpu |-> Panic(c, ArithmeticOverflow), val |-> 0]
         ELSE [cpu |-> c, val |-> (a - b) + 65536]
    ELSE [cpu |-> c, val |-> a - b]

-----------------------------------------------------------------------------
(* Memory.  The array has MEMORY_LEN cells, all zero after CPU::new(); the *)
(* model keeps the non-zero cells only, so that two equal arrays are the   *)
(* same value: MemAt reads a cell, MemSet writes one.                      *)

MemAt(m, a) == IF a \in DOMAIN m THEN m[a] ELSE 0

MemSet(m, a, v) ==
    IF v = 0
    THEN [x \in DOMAIN m \ {a} |-> m[x]]
    ELSE [x \in DOMAIN m \cup {a} |-> IF x = a THEN v ELSE m[x]]

\* self.memory[addr as usize]
mem_read(c, addr) ==
    IF addr >= MEMORY_LEN
    THEN [cpu |-> Panic(c, IndexOutOfBounds), val |-> 0]
    ELSE [cpu |-> c, val |-> MemAt(c.memory, addr)]

\* self.memory[addr as usize] = data
mem_write(c, addr, data) ==
    IF addr >= MEMORY_LEN
    THEN Panic(c, IndexOutOfBounds)
    ELSE Put(c, "memory", MemSet(c.memory, addr, data))

\* self.mem_read(r) and self.mem_write(r, data) at an address r = [cpu, val]
\* just computed.
ReadAt(r) == mem_read(r.cpu, r.val)
WriteAt(r, data) == mem_write(r.cpu, r.val, data)

\* (high << 8) | low, of a high byte just read and a low byte read before it;
\* and of a low byte just read and a high byte read before it.
HighOver(high, low) == [cpu |-> high.cpu, val |-> BitOr(high.val * 256, low)]
LowUnder(low, high) == [cpu |-> low.cpu, val |-> BitOr(high * 256, low.val)]

\* let high = self.mem_read(pos + 1) as u16; (high << 8) | low
ReadHigh(low, pos) == HighOver(ReadAt(AddU16(low.cpu, pos, 1)), low.val)

mem_read_u16(c, pos) == ReadHigh(mem_read(c, pos), pos)

mem_write_u16(c, pos, data) ==
    WriteAt(AddU16(mem_write(c, pos, AsU8(BitAnd(\h00FF, data))), pos, 1),
            AsU8(data \div 256))

-----------------------------------------------------------------------------
(* The status byte (bitflags): every flag is a single bit.                 *)

contains(bits, flag) == (bits \div flag) % 2 = 1
insert(bits, flag) == IF contains(bits, flag) THEN bits ELSE bits + flag
remove(bits, flag) == IF contains(bits, flag) THEN bits - flag ELSE bits

\* self.status.insert(flag), self.status.remove(flag), self.status.set(flag, value)
InsertFlag(c, flag) == Put(c, "status", insert(c.status, flag))
RemoveFlag(c, flag) == Put(c, "status", remove(c.status, flag))
SetFlag(c, flag, value) == IF value THEN InsertFlag(c, flag) ELSE RemoveFlag(c, flag)

set_carry_flag(c) == InsertFlag(c, CARRY)
clear_carry_flag(c) == RemoveFlag(c, CARRY)

\* if <bit shifted out or carry> { self.set_carry_flag() } else { self.clear_carry_flag() }
CarryFrom(c, carry) == IF carry THEN set_carry_flag(c) ELSE clear_carry_flag(c)

\* A negative test that compares instead of testing bit 7.
NegativeFromAbove(c, result) ==
    IF result > \h80 THEN InsertFlag(c, NEGATIVE) ELSE RemoveFlag(c, NEGATIVE)

\* The second if of update_zero_and_negative_flags.
NegativeFrom(c, result) ==
    IF BitAnd(result, \h80) # 0 THEN InsertFlag(c, NEGATIVE) ELSE RemoveFlag(c, NEGATIVE)

update_zero_and_negative_flags(c, result) ==
    NegativeFrom(IF result = 0 THEN InsertFlag(c, ZERO) ELSE RemoveFlag(c, ZERO), result)

set_register_a(c, value) ==
    update_zero_and_negative_flags(Put(c, "reg_a", value), value)

\* self.reg = value; self.update_zero_and_negative_flags(self.reg)
SetRegister(c, reg, value) ==
    update_zero_and_negative_flags(Put(c, reg, value), value)

-----------------------------------------------------------------------------
(* The stack.                                                              *)

\* self.mem_read((STACK as u16) + self.sp as u16)
ReadStack(c) == mem_read(c, STACK + c.sp)

stack_pop(c) == ReadStack(Put(c, "sp", WrappingAdd8(c.sp, 1)))

\* self.sp = self.sp.wrapping_sub(1)
DecSp(c) == Put(c, "sp", WrappingSub8(c.sp, 1))

stack_push(c, data) == DecSp(mem_write(c, STACK + c.sp, data))

\* A push of a word that pushes the low byte first.
stack_push_u16LowFirst(c, data) ==
    stack_push(stack_push(c, AsU8(BitAnd(data, \hFF))), AsU8(data \div 256))

stack_push_u16(c, data) ==
    stack_push(stack_push(c, AsU8(data \div 256)), AsU8(BitAnd(data, \hFF)))

\* let hi = self.stack_pop() as u16; hi << 8 | lo
PopHigh(lo) == HighOver(stack_pop(lo.cpu), lo.val)

stack_pop_u16(c) == PopHigh(stack_pop(c))

-----------------------------------------------------------------------------
(* The instruction metadata (opcodes.rs).  The run loop reads            *)
(* opcodes::OPCODES_MAP, a map from the opcode byte to its OpCode          *)
(* {code, mnemonic, len, cycles, mode}; the table that fills it is not     *)
(* among the sources, so its entries are the 6502's documented lengths     *)
(* and addressing modes of the opcodes the run loop dispatches on (an      *)
(* instruction without an operand address has NoneAddressing).  The cycle  *)
(* count is never read and is left out.                                    *)

Immediate == "Immediate"
ZeroPage == "ZeroPage"
ZeroPageX == "ZeroPageX"
ZeroPageY == "ZeroPageY"
Absolute == "Absolute"
AbsoluteX == "AbsoluteX"
AbsoluteY == "AbsoluteY"
IndirectX == "IndirectX"
IndirectY == "IndirectY"
NoneAddressing == "NoneAddressing"

OpCode(code, mnemonic, len, mode) ==
    [code |-> code, mnemonic |-> mnemonic, len |-> len, mode |-> mode]

CPU_OPS_CODES == {
    OpCode(\h00, "BRK", 1, NoneAddressing), OpCode(\hEA, "NOP", 1, NoneAddressing), OpCode(\h69, "ADC", 2, Immediate),
    OpCode(\h65, "ADC", 2, ZeroPage), OpCode(\h75, "ADC", 2, ZeroPageX), OpCode(\h6D, "ADC", 3, Absolute),
    OpCode(\h7D, "ADC", 3, AbsoluteX), OpCode(\h79, "ADC", 3, AbsoluteY), OpCode(\h61, "ADC", 2, IndirectX),
    OpCode(\h71, "ADC", 2, IndirectY), OpCode(\h29, "AND", 2, Immediate), OpCode(\h25, "AND", 2, ZeroPage),
    OpCode(\h35, "AND", 2, ZeroPageX), OpCode(\h2D, "AND", 3, Absolute), OpCode(\h3D, "AND", 3, AbsoluteX),
    OpCode(\h39, "AND", 3, AbsoluteY), OpCode(\h21, "AND", 2, IndirectX), OpCode(\h31, "AND", 2, IndirectY),
    OpCode(\h0A, "ASL", 1, NoneAddressing), OpCode(\h06, "ASL", 2, ZeroPage), OpCode(\h16, "ASL", 2, ZeroPageX),
    OpCode(\h0E, "ASL", 3, Absolute), OpCode(\h1E, "ASL", 3, AbsoluteX), OpCode(\h24, "BIT", 2, ZeroPage),
    OpCode(\h2C, "BIT", 3, Absolute), OpCode(\h10, "BPL", 2, NoneAddressing), OpCode(\h30, "BMI", 2, NoneAddressing),
    OpCode(\h50, "BVC", 2, NoneAddressing), OpCode(\h70, "BVS", 2, NoneAddressing), OpCode(\h90, "BCC", 2, NoneAddressing),
    OpCode(\hB0, "BCS", 2, NoneAddressing), OpCode(\hD0, "BNE", 2, NoneAddressing), OpCode(\hF0, "BEQ", 2, NoneAddressing),
    OpCode(\hC9, "CMP", 2, Immediate), OpCode(\hC5, "CMP", 2, ZeroPage), OpCode(\hD5, "CMP", 2, ZeroPageX),
    OpCode(\hCD, "CMP", 3, Absolute), OpCode(\hDD, "CMP", 3, AbsoluteX), OpCode(\hD9, "CMP", 3, AbsoluteY),
    OpCode(\hC1, "CMP", 2, IndirectX), OpCode(\hD1, "CMP", 2, IndirectY), OpCode(\hE0, "CPX", 2, Immediate),
    OpCode(\hE4, "CPX", 2, ZeroPage), OpCode(\hEC, "CPX", 3, Absolute), OpCode(\hC0, "CPY", 2, Immediate),
    OpCode(\hC4, "CPY", 2, ZeroPage), OpCode(\hCC, "CPY", 3, Absolute), OpCode(\hC6, "DEC", 2, ZeroPage),
    OpCode(\hD6, "DEC", 2, ZeroPageX), OpCode(\hCE, "DEC", 3, Absolute), OpCode(\hDE, "DEC", 3, AbsoluteX),
    OpCode(\hCA, "DEX", 1, NoneAddressing), OpCode(\h88, "DEY", 1, NoneAddressing), OpCode(\h49, "EOR", 2, Immediate),
    OpCode(\h45, "EOR", 2, ZeroPage), OpCode(\h55, "EOR", 2, ZeroPageX), OpCode(\h4D, "EOR", 3, Absolute),
    OpCode(\h5D, "EOR", 3, AbsoluteX), OpCode(\h59, "EOR", 3, AbsoluteY), OpCode(\h41, "EOR", 2, IndirectX),
    OpCode(\h51, "EOR", 2, IndirectY), OpCode(\hE6, "INC", 2, ZeroPage), OpCode(\hF6, "INC", 2, ZeroPageX),
    OpCode(\hEE, "INC", 3, Absolute), OpCode(\hFE, "INC", 3, AbsoluteX), OpCode(\hE8, "INX", 1, NoneAddressing),
    OpCode(\hC8, "INY", 1, NoneAddressing), OpCode(\h4C, "JMP", 3, NoneAddressing), OpCode(\h6C, "JMP", 3, NoneAddressing),
    OpCode(\h20, "JSR", 3, NoneAddressing), OpCode(\h60, "RTS", 1, NoneAddressing), OpCode(\h40, "RTI", 1, NoneAddressing),
    OpCode(\hA9, "LDA", 2, Immediate), OpCode(\hA5, "LDA", 2, ZeroPage), OpCode(\hB5, "LDA", 2, ZeroPageX),
    OpCode(\hAD, "LDA", 3, Absolute), OpCode(\hBD, "LDA", 3, AbsoluteX), OpCode(\hB9, "LDA", 3, AbsoluteY),
    OpCode(\hA1, "LDA", 2, IndirectX), OpCode(\hB1, "LDA", 2, IndirectY), OpCode(\hA2, "LDX", 2, Immediate),
    OpCode(\hA6, "LDX", 2, ZeroPage), OpCode(\hB6, "LDX", 2, ZeroPageY), OpCode(\hAE, "LDX", 3, Absolute),
    OpCode(\hBE, "LDX", 3, AbsoluteY), OpCode(\hA0, "LDY", 2, Immediate), OpCode(\hA4, "LDY", 2, ZeroPage),
    OpCode(\hB4, "LDY", 2, ZeroPageX), OpCode(\hAC, "LDY", 3, Absolute), OpCode(\hBC, "LDY", 3, AbsoluteX),
    OpCode(\h4A, "LSR", 1, NoneAddressing), OpCode(\h46, "LSR", 2, ZeroPage), OpCode(\h56, "LSR", 2, ZeroPageX),
    OpCode(\h4E, "LSR", 3, Absolute), OpCode(\h5E, "LSR", 3, AbsoluteX), OpCode(\h09, "ORA", 2, Immediate),
    OpCode(\h05, "ORA", 2, ZeroPage), OpCode(\h15, "ORA", 2, ZeroPageX), OpCode(\h0D, "ORA", 3, Absolute),
    OpCode(\h1D, "ORA", 3, AbsoluteX), OpCode(\h19, "ORA", 3, AbsoluteY), OpCode(\h01, "ORA", 2, IndirectX),
    OpCode(\h11, "ORA", 2, IndirectY), OpCode(\h2A, "ROL", 1, NoneAddressing), OpCode(\h26, "ROL", 2, ZeroPage),
    OpCode(\h36, "ROL", 2, ZeroPageX), OpCode(\h2E, "ROL", 3, Absolute), OpCode(\h3E, "ROL", 3, AbsoluteX),
    OpCode(\h6A, "ROR", 1, NoneAddressing), OpCode(\h66, "ROR", 2, ZeroPage), OpCode(\h76, "ROR", 2, ZeroPageX),
    OpCode(\h6E, "ROR", 3, Absolute), OpCode(\h7E, "ROR", 3, AbsoluteX), OpCode(\hE9, "SBC", 2, Immediate),
    OpCode(\hE5, "SBC", 2, ZeroPage), OpCode(\hF5, "SBC", 2, ZeroPageX), OpCode(\hED, "SBC", 3, Absolute),
    OpCode(\hFD, "SBC", 3, AbsoluteX), OpCode(\hF9, "SBC", 3, AbsoluteY), OpCode(\hE1, "SBC", 2, IndirectX),
    OpCode(\hF1, "SBC", 2, IndirectY), OpCode(\h85, "STA", 2, ZeroPage), OpCode(\h95, "STA", 2, ZeroPageX),
    OpCode(\h8D, "STA", 3, Absolute), OpCode(\h9D, "STA", 3, AbsoluteX), OpCode(\h99, "STA", 3, AbsoluteY),
    OpCode(\h81, "STA", 2, IndirectX), OpCode(\h91, "STA", 2, IndirectY), OpCode(\h86, "STX", 2, ZeroPage),
    OpCode(\h96, "STX", 2, ZeroPageY), OpCode(\h8E, "STX", 3, Absolute), OpCode(\h84, "STY", 2, ZeroPage),
    OpCode(\h94, "STY", 2, ZeroPageX), OpCode(\h8C, "STY", 3, Absolute), OpCode(\h18, "CLC", 1, NoneAddressing),
    OpCode(\h38, "SEC", 1, NoneAddressing), OpCode(\h58, "CLI", 1, NoneAddressing), OpCode(\h78, "SEI", 1, NoneAddressing),
    OpCode(\hB8, "CLV", 1, NoneAddressing), OpCode(\hD8, "CLD", 1, NoneAddressing), OpCode(\hF8, "SED", 1, NoneAddressing),
    OpCode(\hAA, "TAX", 1, NoneAddressing), OpCode(\hA8, "TAY", 1, NoneAddressing), OpCode(\hBA, "TSX", 1, NoneAddressing),
    OpCode(\h8A, "TXA", 1, NoneAddressing), OpCode(\h9A, "TXS", 1, NoneAddressing), OpCode(\h98, "TYA", 1, NoneAddressing),
    OpCode(\h48, "PHA", 1, NoneAddressing), OpCode(\h68, "PLA", 1, NoneAddressing), OpCode(\h08, "PHP", 1, NoneAddressing),
    OpCode(\h28, "PLP", 1, NoneAddressing)
    }

OPCODES_MAP ==
    [code \in {op.code : op \in CPU_OPS_CODES} |->
        CHOOSE op \in CPU_OPS_CODES : op.code = code]

-----------------------------------------------------------------------------
(* get_operand_address: the effective address of the operand, read from    *)
(* the bytes at the current pc.  It takes &mut self: the result is the CPU *)
(* after the call and the address.                                         *)

\* pos.wrapping_add(index) as u16, of a u8 pos; pos.wrapping_add(index as u16)
\* A zero-page index that carries into the next page.
Indexed8Carrying(pos, index) == [cpu |-> pos.cpu, val |-> pos.val + index]
Indexed8(pos, index) == [cpu |-> pos.cpu, val |-> WrappingAdd8(pos.val, index)]
Indexed16(pos, index) == [cpu |-> pos.cpu, val |-> WrappingAdd16(pos.val, index)]

\* IndirectX: hi is read at ptr, lo at ptr.wrapping_add(1).
IndirectXLo(hi, ptr) == LowUnder(mem_read(hi.cpu, WrappingAdd8(ptr, 1)), hi.val)
IndirectXPtr(c, ptr) == IndirectXLo(mem_read(c, ptr), ptr)
IndirectXAt(base, x) == IndirectXPtr(base.cpu, WrappingAdd8(base.val, x))

\* IndirectY: lo is read at base, hi at base.wrapping_add(1).
IndirectYHi(lo, base) == HighOver(mem_read(lo.cpu, WrappingAdd8(base, 1)), lo.val)
IndirectYAt(base, y) == Indexed16(IndirectYHi(ReadAt(base), base.val), y)

get_operand_address(c, mode) ==
    CASE mode = Immediate -> [cpu |-> c, val |-> c.pc]
      [] mode = ZeroPage -> mem_read(c, c.pc)
      [] mode = Absolute -> mem_read_u16(c, c.pc)
      [] mode = ZeroPageX -> Indexed8(mem_read(c, c.pc), c.reg_x)
      [] mode = ZeroPageY -> Indexed8(mem_read(c, c.pc), c.reg_y)
      [] mode = AbsoluteX -> Indexed16(mem_read_u16(c, c.pc), c.reg_x)
      [] mode = AbsoluteY -> Indexed16(mem_read_u16(c, c.pc), c.reg_y)
      [] mode = IndirectX -> IndirectXAt(mem_read(c, c.pc), c.reg_x)
      [] mode = IndirectY -> IndirectYAt(mem_read(c, c.pc), c.reg_y)
      [] OTHER -> [cpu |-> Panic(c, ModeNotSupported), val |-> 0]

\* The operand of an instruction that reads it: [cpu, addr, val].
\* let addr = self.get_operand_address(mode); let data = self.mem_read(addr);
DataAt(data, addr) == [cpu |-> data.cpu, addr |-> addr, val |-> data.val]
OperandAt(addr) == DataAt(ReadAt(addr), addr.val)
Operand(c, mode) == OperandAt(get_operand_address(c, mode))

-----------------------------------------------------------------------------
(* Instruction functions.  The helper before each takes the operand o the  *)
(* function has read.                                                      *)

LoadRegister(o, reg) == SetRegister(o.cpu, reg, o.val)

ldy(c, mode) == LoadRegister(Operand(c, mode), "reg_y")
ldx(c, mode) == LoadRegister(Operand(c, mode), "reg_x")
lda(c, mode) == LoadRegister(Operand(c, mode), "reg_a")

\* A store that sets Zero and Negative from the register as a load does.
staSettingFlags(c, mode) ==
    update_zero_and_negative_flags(WriteAt(get_operand_address(c, mode), c.reg_a), c.reg_a)
sta(c, mode) == WriteAt(get_operand_address(c, mode), c.reg_a)
stx(c, mode) == WriteAt(get_operand_address(c, mode), c.reg_x)
sty(c, mode) == WriteAt(get_operand_address(c, mode), c.reg_y)

AndWith(o) == set_register_a(o.cpu, BitAnd(o.val, o.cpu.reg_a))
EorWith(o) == set_register_a(o.cpu, BitXor(o.val, o.cpu.reg_a))
OraWith(o) == set_register_a(o.cpu, BitOr(o.val, o.cpu.reg_a))

and(c, mode) == AndWith(Operand(c, mode))
eor(c, mode) == EorWith(Operand(c, mode))
ora(c, mode) == OraWith(Operand(c, mode))

tax(c) == SetRegister(c, "reg_x", c.reg_a)
tay(c) == SetRegister(c, "reg_y", c.reg_a)
tsx(c) == SetRegister(c, "reg_x", c.sp)
txa(c) == SetRegister(c, "reg_a", c.reg_x)
txs(c) == Put(c, "sp", c.reg_x)
tya(c) == SetRegister(c, "reg_a", c.reg_y)

\* An increment that saturates.
inxSaturating(c) == SetRegister(c, "reg_x", IF c.reg_x = \hFF THEN \hFF ELSE c.reg_x + 1)
inx(c) == SetRegister(c, "reg_x", WrappingAdd8(c.reg_x, 1))
iny(c) == SetRegister(c, "reg_y", WrappingAdd8(c.reg_y, 1))
dey(c) == SetRegister(c, "reg_y", WrappingSub8(c.reg_y, 1))
dex(c) == SetRegister(c, "reg_x", WrappingSub8(c.reg_x, 1))

\* self.mem_write(addr, data); self.update_zero_and_negative_flags(data)
WriteBack(c, addr, data) ==
    update_zero_and_negative_flags(mem_write(c, addr, data), data)

DecAt(o) == WriteBack(o.cpu, o.addr, WrappingSub8(o.val, 1))
IncAt(o) == WriteBack(o.cpu, o.addr, WrappingAdd8(o.val, 1))

dec(c, mode) == DecAt(Operand(c, mode))
inc(c, mode) == IncAt(Operand(c, mode))

\* An overflow test that leaves the old accumulator out.
OverflowFromOperandOnly(c, data, result) ==
    IF BitAnd(BitXor(data, result), \h80) # 0
    THEN InsertFlag(c, OVERFLOW)
    ELSE RemoveFlag(c, OVERFLOW)

\* The overflow test of add_to_register_a.
OverflowFrom(c, data, result) ==
    IF BitAnd(BitAnd(BitXor(data, result), BitXor(result, c.reg_a)), \h80) # 0
    THEN InsertFlag(c, OVERFLOW)
    ELSE RemoveFlag(c, OVERFLOW)

\* add_to_register_a once sum is computed.
AddSum(c, data, sum) ==
    set_register_a(OverflowFrom(CarryFrom(c, sum > \hFF), data, AsU8(sum)), AsU8(sum))

add_to_register_a(c, data) ==
    AddSum(c, data, c.reg_a + data + (IF contains(c.status, CARRY) THEN 1 ELSE 0))

\* i8::wrapping_neg, i8::wrapping_sub and `i as u8`
WrappingNegI8(i) == IF i = -128 THEN -128 ELSE -i
WrappingSubI8(i, j) == IF i - j < -128 THEN i - j + 256 ELSE IF i - j > 127 THEN i - j - 256 ELSE i - j
I8AsU8(i) == IF i < 0 THEN i + 256 ELSE i

\* A subtraction that adds the negated operand without the further - 1.
SbcWithNegated(o) ==
    add_to_register_a(o.cpu, I8AsU8(WrappingNegI8(AsI8(o.val))))

SbcWith(o) ==
    add_to_register_a(o.cpu, I8AsU8(WrappingSubI8(WrappingNegI8(AsI8(o.val)), 1)))
AdcWith(o) == add_to_register_a(o.cpu, o.val)

sbc(c, mode) == SbcWith(Operand(c, mode))
adc(c, mode) == AdcWith(Operand(c, mode))

\* let data = self.stack_pop(); self.set_register_a(data)
PlaFrom(data) == set_register_a(data.cpu, data.val)
pla(c) == PlaFrom(stack_pop(c))

\* A pop of the status byte that takes all eight bits as popped.
PopStatusVerbatim(c) == PutVal(stack_pop(c), "status")

\* self.status.bits = self.stack_pop(); remove(BREAK); insert(BREAK2)
PopStatus(c) == InsertFlag(RemoveFlag(PutVal(stack_pop(c), "status"), BREAK), BREAK2)

plp(c) == PopStatus(c)

\* A push of the status byte as it is.
phpAsIs(c) == stack_push(c, c.status)
php(c) == stack_push(c, insert(insert(c.status, BREAK), BREAK2))

BitWith(o) ==
    SetFlag(SetFlag(SetFlag(o.cpu, ZERO, BitAnd(o.cpu.reg_a, o.val) = 0),
                    NEGATIVE, BitAnd(o.val, \h80) > 0),
            OVERFLOW, BitAnd(o.val, \h40) > 0)

bit(c, mode) == BitWith(Operand(c, mode))

\* A comparison that sets Carry only when the register is greater.
CompareWithStrict(o, compare_with) ==
    update_zero_and_negative_flags(CarryFrom(o.cpu, o.val < compare_with),
                                   WrappingSub8(compare_with, o.val))

CompareWith(o, compare_with) ==
    update_zero_and_negative_flags(CarryFrom(o.cpu, o.val <= compare_with),
                                   WrappingSub8(compare_with, o.val))

compare(c, mode, compare_with) == CompareWith(Operand(c, mode), compare_with)

\* let jump: i8 = self.mem_read(self.pc) as i8; self.pc = jump_addr
BranchBy(jump) ==
    Put(jump.cpu, "pc",
        WrappingAdd16(WrappingAdd16(jump.cpu.pc, 1), I8AsU16(AsI8(jump.val))))

branch(c, condition) == IF condition THEN BranchBy(mem_read(c, c.pc)) ELSE c

\* `data << 1` and `data >> 1` on a u8.
Shl8(data) == (data * 2) % 256
Shr8(data) == data \div 2

asl_accumulator(c) ==
    set_register_a(CarryFrom(c, Shr8(c.reg_a) \div 64 = 1), Shl8(c.reg_a))

AslAt(o) == WriteBack(CarryFrom(o.cpu, Shr8(o.val) \div 64 = 1), o.addr, Shl8(o.val))
asl(c, mode) == AslAt(Operand(c, mode))

lsr_accumulator(c) ==
    set_register_a(CarryFrom(c, BitAnd(c.reg_a, 1) = 1), Shr8(c.reg_a))

LsrAt(o) == WriteBack(CarryFrom(o.cpu, BitAnd(o.val, 1) = 1), o.addr, Shr8(o.val))
lsr(c, mode) == LsrAt(Operand(c, mode))

\* A rotation left that leaves bit 0 clear whatever the carry was.
RolDataDroppingCarry(data, old_carry) == Shl8(data)

\* data = data << 1; if old_carry { data = data | 1 }
RolData(data, old_carry) == IF old_carry THEN BitOr(Shl8(data), 1) ELSE Shl8(data)
\* data = data >> 1; if old_carry { data = data | 0b10000000 }
RorData(data, old_carry) == IF old_carry THEN BitOr(Shr8(data), \h80) ELSE Shr8(data)

RolAt(o) ==
    WriteBack(CarryFrom(o.cpu, Shr8(o.val) \div 64 = 1), o.addr,
              RolData(o.val, contains(o.cpu.status, CARRY)))
rol(c, mode) == RolAt(Operand(c, mode))

rol_accumulator(c) ==
    set_register_a(CarryFrom(c, Shr8(c.reg_a) \div 64 = 1),
                   RolData(c.reg_a, contains(c.status, CARRY)))

RorAt(o) ==
    WriteBack(CarryFrom(o.cpu, BitAnd(o.val, 1) = 1), o.addr,
              RorData(o.val, contains(o.cpu.status, CARRY)))
ror(c, mode) == RorAt(Operand(c, mode))

ror_accumulator(c) ==
    set_register_a(CarryFrom(c, BitAnd(c.reg_a, 1) = 1),
                   RorData(c.reg_a, contains(c.status, CARRY)))

-----------------------------------------------------------------------------
(* The control-flow arms of the match in run_with_callback.                *)

\* self.pc = <the address just computed>
JumpTo(target) == PutVal(target, "pc")

jmp_absolute(c) == JumpTo(mem_read_u16(c, c.pc))

\* The page-boundary arm: lo is read at the pointer, hi at the start of its page.
PageWrapRef(lo, mem_address) ==
    HighOver(mem_read(lo.cpu, BitAnd(mem_address, \hFF00)), lo.val)

IndirectRef(mem_address) ==
    IF BitAnd(mem_address.val, \h00FF) = \h00FF
    THEN PageWrapRef(ReadAt(mem_address), mem_address.val)
    ELSE mem_read_u16(mem_address.cpu, mem_address.val)

jmp_indirect(c) == JumpTo(IndirectRef(mem_read_u16(c, c.pc)))

\* self.stack_push_u16(self.pc + 2 - 1)
MinusOne(sum) == SubU16(sum.cpu, sum.val, 1)
PushVal(r) == stack_push_u16(r.cpu, r.val)
PushReturn(c) == PushVal(MinusOne(AddU16(c, c.pc, 2)))
\* let target_address = self.mem_read_u16(self.pc)
ReadTarget(c) == mem_read_u16(c, c.pc)

jsr(c) == JumpTo(ReadTarget(PushReturn(c)))

\* self.stack_pop_u16() + 1
PlusOne(popped) == AddU16(popped.cpu, popped.val, 1)

rts(c) == JumpTo(PlusOne(stack_pop_u16(c)))

rti(c) == JumpTo(stack_pop_u16(PopStatus(c)))

-----------------------------------------------------------------------------
(* match code { ... }: the handler of every opcode but 0x00, which         *)
(* returns from the loop (see Iteration).                                  *)

NotYetImplemented == "not yet implemented"

Dispatch(c, code, mode) ==
    CASE code \in {\hA9, \hA5, \hB5, \hAD, \hBD, \hB9, \hA1, \hB1} -> lda(c, mode)
      [] code = \hAA -> tax(c)
      [] code = \hE8 -> inx(c)
      [] code = \hD8 -> Put(c, "status", remove(c.status, DECIMAL_MODE))
      [] code = \h58 -> Put(c, "status", remove(c.status, INTERRUPT_DISABLE))
      [] code = \hB8 -> Put(c, "status", remove(c.status, OVERFLOW))
      [] code = \h18 -> clear_carry_flag(c)
      [] code = \h38 -> set_carry_flag(c)
      [] code = \h78 -> Put(c, "status", insert(c.status, INTERRUPT_DISABLE))
      [] code = \hF8 -> Put(c, "status", insert(c.status, DECIMAL_MODE))
      [] code = \h48 -> stack_push(c, c.reg_a)
      [] code = \h68 -> pla(c)
      [] code = \h08 -> php(c)
      [] code = \h28 -> plp(c)
      [] code \in {\h69, \h65, \h75, \h6D, \h7D, \h79, \h61, \h71} -> adc(c, mode)
      [] code \in {\hE9, \hE5, \hF5, \hED, \hFD, \hF9, \hE1, \hF1} -> sbc(c, mode)
      [] code \in {\h29, \h25, \h35, \h2D, \h3D, \h39, \h21, \h31} -> and(c, mode)
      [] code \in {\h49, \h45, \h55, \h4D, \h5D, \h59, \h41, \h51} -> eor(c, mode)
      [] code \in {\h09, \h05, \h15, \h0D, \h1D, \h19, \h01, \h11} -> ora(c, mode)
      [] code = \h4A -> lsr_accumulator(c)
      [] code \in {\h46, \h56, \h4E, \h5E} -> lsr(c, mode)
      [] code = \h0A -> asl_accumulator(c)
      [] code \in {\h06, \h16, \h0E, \h1E} -> asl(c, mode)
      [] code = \h2A -> rol_accumulator(c)
      [] code \in {\h26, \h36, \h2E, \h3E} -> rol(c, mode)
      [] code = \h6A -> ror_accumulator(c)
      [] code \in {\h66, \h76, \h6E, \h7E} -> ror(c, mode)
      [] code \in {\hE6, \hF6, \hEE, \hFE} -> inc(c, mode)
      [] code = \hC8 -> iny(c)
      [] code \in {\hC6, \hD6, \hCE, \hDE} -> dec(c, mode)
      [] code = \hCA -> dex(c)
      [] code = \h88 -> dey(c)
      [] code \in {\hC9, \hC5, \hD5, \hCD, \hDD, \hD9, \hC1, \hD1} -> compare(c, mode, c.reg_a)
      [] code \in {\hC0, \hC4, \hCC} -> compare(c, mode, c.reg_y)
      [] code \in {\hE0, \hE4, \hEC} -> compare(c, mode, c.reg_x)
      [] code = \h4C -> jmp_absolute(c)
      [] code = \h6C -> jmp_indirect(c)
      [] code = \h20 -> jsr(c)
      [] code = \h60 -> rts(c)
      [] code = \h40 -> rti(c)
      [] code = \hD0 -> branch(c, ~contains(c.status, ZERO))
      [] code = \h70 -> branch(c, contains(c.status, OVERFLOW))
      [] code = \h50 -> branch(c, ~contains(c.status, OVERFLOW))
      [] code = \h10 -> branch(c, ~contains(c.status, NEGATIVE))
      [] code = \h30 -> branch(c, contains(c.status, NEGATIVE))
      [] code = \hF0 -> branch(c, contains(c.status, ZERO))
      [] code = \hB0 -> branch(c, contains(c.status, CARRY))
      [] code = \h90 -> branch(c, ~contains(c.status, CARRY))
      [] code \in {\h24, \h2C} -> bit(c, mode)
      [] code \in {\h85, \h95, \h8D, \h9D, \h99, \h81, \h91} -> sta(c, mode)
      [] code \in {\h86, \h96, \h8E} -> stx(c, mode)
      [] code \in {\h84, \h94, \h8C} -> sty(c, mode)
      [] code \in {\hA2, \hA6, \hB6, \hAE, \hBE} -> ldx(c, mode)
      [] code \in {\hA0, \hA4, \hB4, \hAC, \hBC} -> ldy(c, mode)
      [] code = \hEA -> c
      [] code = \hA8 -> tay(c)
      [] code = \hBA -> tsx(c)
      [] code = \h8A -> txa(c)
      [] code = \h9A -> txs(c)
      [] code = \h98 -> tya(c)
      [] OTHER -> Panic(c, NotYetImplemented)

-----------------------------------------------------------------------------
(* One iteration of the loop of run_with_callback, with the hook of run()  *)
(* (a closure that does nothing).  The result is the CPU after the         *)
(* iteration, whether the loop returned, and what the iteration saw: the   *)
(* opcode byte, pc_state, the pc the handler left, and the calls of the    *)
(* hook with the pc of the CPU the hook was given.                         *)

\* A loop that adds the whole length after the handler.
AdvancePcWholeLength(c, pc_state, len) ==
    IF pc_state = c.pc THEN PutVal(AddU16(c, c.pc, len), "pc") ELSE c

\* if pc_state == self.pc { self.pc += (operand.len - 1) as u16; }
AdvancePc(c, pc_state, len) ==
    IF pc_state = c.pc THEN PutVal(AddU16(c, c.pc, len - 1), "pc") ELSE c

\* The iteration's result once the handler has left the CPU c2.
Finish(c2, code, pc_state, len) ==
    [cpu |-> AdvancePc(c2, pc_state, len), returned |-> FALSE, code |-> code,
     pc_state |-> pc_state, handler_pc |-> c2.pc]

\* An end without a handler that always leaves the loop as a return does.
EndsReturning(c, code) ==
    [cpu |-> c, returned |-> TRUE, code |-> code,
     pc_state |-> c.pc, handler_pc |-> c.pc]

\* The iteration ends without a handler: a panic, or 0x00 => return.
Ends(c, code) ==
    [cpu |-> c, returned |-> c.fatal = NoFatal, code |-> code,
     pc_state |-> c.pc, handler_pc |-> c.pc]

\* A lookup that passes over a byte with no entry as over a one-byte no-op.
DecodeSkipping(c1, code) ==
    IF c1.fatal # NoFatal THEN Ends(c1, code)
    ELSE IF code \notin DOMAIN OPCODES_MAP THEN Finish(c1, code, c1.pc, 1)
    ELSE IF code = \h00 THEN Ends(c1, code)
    ELSE Finish(Dispatch(c1, code, OPCODES_MAP[code].mode), code, c1.pc,
                OPCODES_MAP[code].len)

\* let operand = codes.get(&code).expect(..); match code { .. }
Decode(c1, code) ==
    IF c1.fatal # NoFatal THEN Ends(c1, code)
    ELSE IF code \notin DOMAIN OPCODES_MAP THEN Ends(Panic(c1, OpcodeNotRecognized), code)
    ELSE IF code = \h00 THEN Ends(c1, code)
    ELSE Finish(Dispatch(c1, code, OPCODES_MAP[code].mode), code, c1.pc,
                OPCODES_MAP[code].len)

\* self.pc += 1
IncPc(c) == PutVal(AddU16(c, c.pc, 1), "pc")

\* let code = self.mem_read(self.pc); ...
Fetched(code) == Decode(IncPc(code.cpu), code.val)

\* callback(self), with the closure |_| {} of run(): the CPU is left as it is.
callback(c) == c

\* What the iteration saw, with the one call of the hook on the CPU given.
Observed(it, given) ==
    [cpu |-> it.cpu, returned |-> it.returned, code |-> it.code,
     pc_state |-> it.pc_state, handler_pc |-> it.handler_pc,
     hook_calls |-> 1, hook_pc |-> given.pc]

\* A loop that calls the hook between the lookup and the match.
HookedAfterLookup(c) == Observed(Fetched(mem_read(c, c.pc)), IncPc(c))

\* loop { callback(self); let code = self.mem_read(self.pc); ... }
Hooked(c) == Observed(Fetched(mem_read(c, c.pc)), c)

Iteration(c) == Hooked(callback(c))

-----------------------------------------------------------------------------
(* The harness: load, reset, load_and_run.                                 *)
(*                                                                         *)
(* A program (Vec<u8>) is its length and its non-zero bytes, indexed from  *)
(* 0, so that a program that fills the load region is a small value.       *)

ProgramOf(bytes) ==
    [len |-> Len(bytes),
     bytes |-> [i \in {j \in 0..(Len(bytes) - 1) : bytes[j + 1] # 0} |-> bytes[i + 1]]]

ProgramAt(program, i) == IF i \in DOMAIN program.bytes THEN program.bytes[i] ELSE 0

\* self.memory[0x8000..(0x8000 + program.len())].clone_from_slice(&program[..])
CopyProgram(m, program) ==
    LET kept == {a \in DOMAIN m : a < LOAD_BASE \/ a >= LOAD_BASE + program.len}
        copied == {LOAD_BASE + i : i \in DOMAIN program.bytes}
    IN  [a \in kept \cup copied |->
            IF a \in copied THEN program.bytes[a - LOAD_BASE] ELSE m[a]]

CopyInto(c, program) ==
    IF LOAD_BASE + program.len > MEMORY_LEN
    THEN Panic(c, SliceOutOfRange)
    ELSE Put(c, "memory", CopyProgram(c.memory, program))

\* A load that points the reset vector one byte into the program.
loadVectorOff(c, program) == mem_write_u16(CopyInto(c, program), RESET_VECTOR, LOAD_BASE + 1)
load(c, program) == mem_write_u16(CopyInto(c, program), RESET_VECTOR, LOAD_BASE)

\* A reset that leaves the Y register alone.
resetKeepingY(c) ==
    PutVal(mem_read_u16(Put(Put(Put(Put(c, "reg_a", 0), "reg_x", 0), "sp", STACK_RESET),
                            "status", STATUS_RESET),
                        RESET_VECTOR),
           "pc")

reset(c) ==
    PutVal(mem_read_u16(Put(Put(Put(Put(Put(c, "reg_a", 0), "reg_x", 0), "reg_y", 0),
                                "sp", STACK_RESET),
                            "status", STATUS_RESET),
                        RESET_VECTOR),
           "pc")

\* load_and_run up to its call of run(): the loop's iterations are Step.
load_and_run(c, program) ==
    reset(load(Put(c, "memory", [a \in {} |-> 0]), program))

-----------------------------------------------------------------------------
(* The state of the model.                                                 *)

\* The CPU of the current state, in a build with or without overflow checks.
Self(checks) ==
    [reg_a |-> reg_a, reg_x |-> reg_x, reg_y |-> reg_y, status |-> status,
     pc |-> pc, sp |-> sp, memory |-> memory, fatal |-> fatal,
     overflow_checks |-> checks]

\* The CPU's fields, without the build's setting.
Fields(c) ==
    [reg_a |-> c.reg_a, reg_x |-> c.reg_x, reg_y |-> c.reg_y, status |-> c.status,
     pc |-> c.pc, sp |-> c.sp, memory |-> c.memory, fatal |-> c.fatal]

\* The next state holds the CPU c.
Becomes(c) ==
    /\ reg_a' = c.reg_a
    /\ reg_x' = c.reg_x
    /\ reg_y' = c.reg_y
    /\ status' = c.status
    /\ pc' = c.pc
    /\ sp' = c.sp
    /\ memory' = c.memory
    /\ fatal' = c.fatal

\* The current state holds the CPU c.
Is(c) ==
    /\ reg_a = c.reg_a
    /\ reg_x = c.reg_x
    /\ reg_y = c.reg_y
    /\ status = c.status
    /\ pc = c.pc
    /\ sp = c.sp
    /\ memory = c.memory
    /\ fatal = c.fatal

\* CPU::new()
new ==
    [reg_a |-> 0, reg_x |-> 0, reg_y |-> 0, status |-> STATUS_RESET, pc |-> 0,
     sp |-> STACK_RESET, memory |-> [a \in {} |-> 0], fatal |-> NoFatal,
     overflow_checks |-> TRUE]

\* let mut cpu = CPU::new();
Init ==
    /\ Is(new)
    /\ phase = "new"
    /\ steps = 0
    /\ pokes = 0
    /\ entry = [op |-> "new"]
    /\ last = [op |-> "new"]
    /\ pre = [op |-> "new"]

-----------------------------------------------------------------------------
(* The inputs.                                                             *)

\* Iterations of the run loop followed in one run().
MaxSteps == 4
\* Assignments to the CPU's public fields and mem_write calls the caller makes
\* between reset() and run().
MaxPokes == 2

ByteOperands == {\h00, \h01, \h10, \h7F, \h80, \hFF}
WordOperands == {\h0010, \h00FF, \h30FF, \h8001, \hFFFF}

\* Every instruction of the table with the operands above.
InstructionPrograms ==
    UNION {
        CASE op.len = 1 -> {<<op.code>>}
          [] op.len = 2 -> {<<op.code, b>> : b \in ByteOperands}
          [] OTHER -> {<<op.code, w % 256, w \div 256>> : w \in WordOperands}
        : op \in CPU_OPS_CODES }

\* The programs of the tests of cpu.rs, TXS; PHA; PLA, PHP; PLP, and a byte
\* that is no opcode.
TestPrograms ==
    { <<\hA9, \h05, \h00>>, <<\hA9, \h00, \h00>>, <<\h85, \h10, \h00>>,
      <<\hAA, \h00>>, <<\hE8, \hE8, \h00>>, <<\hA9, \hC0, \hAA, \hE8, \h00>>,
      <<\hA9, \hFF, \hAA, \hE8, \h00>>, <<\hE8, \hE8, \hE8, \h00>>,
      <<\h9A, \h48, \h68, \h00>>, <<\h08, \h28, \h00>>,
      <<\h9A, \h28, \h00>>, <<\h9A, \h40>>,
      <<\h02>> }

\* Programs that reach the end of the load region: n bytes, all zero but the
\* last three.
LongProgram(n) ==
    [len |-> n, bytes |-> [i \in {n - 3, n - 2, n - 1} |-> \hEA]]

LongPrograms == {LongProgram(n) : n \in {\h7FFC, \h7FFD, \h7FFF, \h8000}}

Programs ==
    {ProgramOf(p) : p \in InstructionPrograms \cup TestPrograms} \cup LongPrograms

AValues == {\h01, \h55, \h7F, \h80, \hFF}
XValues == {\h01, \hFF}
YValues == {\h01, \hFF}
StatusValues == {\h25, \hE7}
MemWrites ==
    { <<\h0010, \h01>>, <<\h0010, \h80>>, <<\h0010, \hFF>>,
      <<\h30FF, \h80>>, <<\h3000, \h50>>, <<\h3100, \h51>>, <<\hFFFC, \h10>> }

-----------------------------------------------------------------------------
(* The actions: what the caller of the CPU does, and the run loop.         *)

After(c, ok) == IF c.fatal # NoFatal THEN "panicked" ELSE ok

\* cpu.load(program)
Load ==
    /\ phase = "new"
    /\ \E program \in Programs :
        \E c \in {load(Self(TRUE), program)} :
            /\ Becomes(c)
            /\ phase' = After(c, "loaded")
            /\ last' = [op |-> "load", program |-> program]
    /\ pre' = Fields(Self(TRUE))
    /\ UNCHANGED <<steps, pokes, entry>>

\* cpu.load_and_run(program), up to the first iteration of the loop
LoadAndRun ==
    /\ phase = "new"
    /\ \E program \in Programs :
        \E c \in {load_and_run(Self(TRUE), program)} :
            /\ Becomes(c)
            /\ phase' = After(c, "running")
            /\ entry' = Fields(c)
            /\ last' = [op |-> "load_and_run", program |-> program]
    /\ pre' = Fields(Self(TRUE))
    /\ steps' = 0
    /\ UNCHANGED pokes

\* cpu.reset(): after load, and again before run() or after it has returned
\* (the model follows the CPU no further after the second reset)
Reset ==
    /\ phase \in {"new", "loaded", "ready", "returned"}
    /\ \E c \in {reset(Self(TRUE))} :
           /\ Becomes(c)
           /\ phase' = IF phase = "loaded" THEN After(c, "ready") ELSE After(c, "done")
    /\ last' = [op |-> "reset"]
    /\ pre' = Fields(Self(TRUE))
    /\ UNCHANGED <<steps, pokes, entry>>

CanPoke == phase = "ready" /\ pokes < MaxPokes

Poked ==
    /\ pokes' = pokes + 1
    /\ last' = [op |-> "poke"]
    /\ UNCHANGED <<phase, steps, entry, pre, fatal>>

\* cpu.reg_a = v
SetA ==
    /\ CanPoke
    /\ \E v \in AValues : reg_a' = v
    /\ Poked
    /\ UNCHANGED <<reg_x, reg_y, status, pc, sp, memory>>

\* cpu.reg_x = v
SetX ==
    /\ CanPoke
    /\ \E v \in XValues : reg_x' = v
    /\ Poked
    /\ UNCHANGED <<reg_a, reg_y, status, pc, sp, memory>>

\* cpu.reg_y = v
SetY ==
    /\ CanPoke
    /\ \E v \in YValues : reg_y' = v
    /\ Poked
    /\ UNCHANGED <<reg_a, reg_x, status, pc, sp, memory>>

\* cpu.status = CpuFlags::from_bits_truncate(v)
SetStatus ==
    /\ CanPoke
    /\ \E v \in StatusValues : status' = v
    /\ Poked
    /\ UNCHANGED <<reg_a, reg_x, reg_y, pc, sp, memory>>

\* cpu.mem_write(addr, data)
MemWrite ==
    /\ CanPoke
    /\ \E w \in MemWrites : memory' = mem_write(Self(TRUE), w[1], w[2]).memory
    /\ Poked
    /\ UNCHANGED <<reg_a, reg_x, reg_y, status, pc, sp>>

\* cpu.run(): the loop starts
Run ==
    /\ phase = "ready"
    /\ phase' = "running"
    /\ steps' = 0
    /\ entry' = Fields(Self(TRUE))
    /\ last' = [op |-> "run"]
    /\ UNCHANGED <<reg_a, reg_x, reg_y, status, pc, sp, memory, fatal, pokes, pre>>

\* What an iteration saw, for the history: the opcode and its mode, pc_state,
\* the pc the handler left, and the operand address the resolver gives at
\* pc_state with the pc it leaves.
Resolved(c, mode) ==
    IF mode = NoneAddressing THEN [cpu |-> c, val |-> 0] ELSE get_operand_address(c, mode)

SeenAt(it, mode, addr) ==
    [op |-> "step", code |-> it.code, mode |-> mode, pc_state |-> it.pc_state,
     handler_pc |-> it.handler_pc, returned |-> it.returned,
     hook_calls |-> it.hook_calls, hook_pc |-> it.hook_pc,
     addr |-> addr.val, addr_pc |-> addr.cpu.pc]

SeenIn(c, it, mode) == SeenAt(it, mode, Resolved([c EXCEPT !.pc = it.pc_state], mode))

Seen(c, it) ==
    SeenIn(c, it, IF it.code \in DOMAIN OPCODES_MAP
                  THEN OPCODES_MAP[it.code].mode ELSE NoneAddressing)

\* An overflow panics in a build that checks overflow and wraps in one that
\* does not: both outcomes are next states.
Outcomes(checked) ==
    IF checked.cpu.fatal = ArithmeticOverflow
    THEN {checked, Iteration(Self(FALSE))}
    ELSE {checked}

\* One iteration of the loop.
Step ==
    /\ phase = "running"
    /\ steps < MaxSteps
    /\ \E it \in Outcomes(Iteration(Self(TRUE))) :
            /\ Becomes(it.cpu)
            /\ phase' = IF it.returned THEN "returned" ELSE After(it.cpu, "running")
            /\ last' = Seen(Self(TRUE), it)
    /\ pre' = Fields(Self(TRUE))
    /\ steps' = steps + 1
    /\ UNCHANGED <<pokes, entry>>

Next ==
    \/ Load
    \/ LoadAndRun
    \/ Reset
    \/ SetA
    \/ SetX
    \/ SetY
    \/ SetStatus
    \/ MemWrite
    \/ Run
    \/ Step

Spec == Init /\ [][Next]_vars


-----------------------------------------------------------------------------
(* The 16-bit memory primitives on their own: a caller that writes words   *)
(* to a CPU just constructed and reads them back.                          *)

WordAddresses == {\h0000, \h00FF, \h8000, \hFFFC, \hFFFD, \hFFFE}
WordValues == {\h0000, \h00FF, \h0100, \h1234, \h8000, \hFFFF}

\* cpu.mem_write_u16(pos, data)
WriteU16 ==
    /\ phase = "new"
    /\ pokes < MaxPokes
    /\ \E pos \in WordAddresses, data \in WordValues :
        \E c \in {mem_write_u16(Self(TRUE), pos, data)} :
            /\ Becomes(c)
            /\ phase' = After(c, "new")
            /\ last' = [op |-> "mem_write_u16", pos |-> pos, data |-> data]
    /\ pre' = Fields(Self(TRUE))
    /\ pokes' = pokes + 1
    /\ UNCHANGED <<steps, entry>>

\* cpu.mem_read_u16(pos), at the address just written
ReadU16 ==
    /\ phase = "new"
    /\ last.op = "mem_write_u16"
    /\ \E r \in {mem_read_u16(Self(TRUE), last.pos)} :
            /\ Becomes(r.cpu)
            /\ phase' = After(r.cpu, "new")
            /\ last' = [op |-> "mem_read_u16", pos |-> last.pos, data |-> last.data,
                        val |-> r.val]
    /\ pre' = Fields(Self(TRUE))
    /\ UNCHANGED <<steps, pokes, entry>>

NextMem ==
    \/ WriteU16
    \/ ReadU16

SpecMem == Init /\ [][NextMem]_vars

-----------------------------------------------------------------------------
(* One arithmetic instruction on every accumulator, operand and carry: the *)
(* program <<code, m, BRK>> loaded and reset, the accumulator and the      *)
(* carry flag set by the caller, and run() started.                        *)

Byte == 0..255
AluCodes == {\h69}

AluStart(code, a, m, carry) ==
    [reset(load(new, ProgramOf(<<code, m, \h00>>)))
        EXCEPT !.reg_a = a, !.status = STATUS_RESET + carry]

InitAlu ==
    /\ \E code \in AluCodes, a \in Byte, m \in Byte, carry \in {0, 1} :
        \E c \in {AluStart(code, a, m, carry)} :
            /\ Is(c)
            /\ entry = Fields(c)
    /\ phase = "running"
    /\ steps = 0
    /\ pokes = 0
    /\ last = [op |-> "run"]
    /\ pre = [op |-> "new"]

NextAlu == Step

SpecAlu == InitAlu /\ [][NextAlu]_vars

(* The compare instructions over every register value and operand: after   *)
(* load and reset of a two-byte immediate CMP, CPX or CPY, the compared    *)
(* register and the status byte are set by the caller, and run() started.  *)

CmpCodes == {\hC9, \hE0, \hC0}
CmpStatusValues == {STATUS_RESET, \hE7}

CmpStart(code, r, m, bits) ==
    [reset(load(new, ProgramOf(<<code, m, \h00>>)))
        EXCEPT !.reg_a = IF code = \hC9 THEN r ELSE 0,
               !.reg_x = IF code = \hE0 THEN r ELSE 0,
               !.reg_y = IF code = \hC0 THEN r ELSE 0,
               !.status = bits]

InitCmp ==
    /\ \E code \in CmpCodes, r \in Byte, m \in Byte, bits \in CmpStatusValues :
        \E c \in {CmpStart(code, r, m, bits)} :
            /\ Is(c)
            /\ entry = Fields(c)
    /\ phase = "running"
    /\ steps = 0
    /\ pokes = 0
    /\ last = [op |-> "run"]
    /\ pre = [op |-> "new"]

NextCmp == Step

SpecCmp == InitCmp /\ [][NextCmp]_vars

(* The subtraction over every accumulator, operand and carry: as for ADC,  *)
(* with the immediate SBC.                                                 *)

SbcCodes == {\hE9}

InitSbc ==
    /\ \E code \in SbcCodes, a \in Byte, m \in Byte, carry \in {0, 1} :
        \E c \in {AluStart(code, a, m, carry)} :
            /\ Is(c)
            /\ entry = Fields(c)
    /\ phase = "running"
    /\ steps = 0
    /\ pokes = 0
    /\ last = [op |-> "run"]
    /\ pre = [op |-> "new"]

NextSbc == Step

SpecSbc == InitSbc /\ [][NextSbc]_vars

(* The shifts and rotations over every input byte and carry: after load    *)
(* and reset of a program of accumulator or zero-page shifts, the caller   *)
(* writes the byte to cell 0x0010 and to the accumulator and sets the      *)
(* carry flag, and run() is started.                                       *)

ShiftPrograms ==
    { <<\h0A, \h00>>, <<\h4A, \h00>>, <<\h2A, \h00>>, <<\h6A, \h00>>,
      <<\h06, \h10, \h00>>, <<\h46, \h10, \h00>>,
      <<\h26, \h10, \h00>>, <<\h66, \h10, \h00>>,
      <<\h2A, \h6A, \h00>>, <<\h26, \h10, \h66, \h10, \h00>> }

ShiftStart(program, d, carry) ==
    [mem_write(reset(load(new, ProgramOf(program))), \h0010, d)
        EXCEPT !.reg_a = d, !.status = STATUS_RESET + carry]

InitShift ==
    /\ \E program \in ShiftPrograms, d \in Byte, carry \in {0, 1} :
        \E c \in {ShiftStart(program, d, carry)} :
            /\ Is(c)
            /\ entry = Fields(c)
    /\ phase = "running"
    /\ steps = 0
    /\ pokes = 0
    /\ last = [op |-> "run"]
    /\ pre = [op |-> "new"]

NextShift == Step

SpecShift == InitShift /\ [][NextShift]_vars

(* Calls and returns at several addresses and stack pointers: a program    *)
(* with JSR t at address p and a subroutine at t (RTS, or PHA; PLA; RTS),  *)
(* or with PHA; PLA at p, is loaded, the reset vector is pointed at p, the *)
(* CPU is reset, the caller sets sp and A, and run() is started.           *)

CallLen == \h1100
CallAddresses == {\h8000, \h8010, \h80FD, \h80FE}
CallTargets(p) == {p + 1, \h8200, \h8FFE}
CallBodies == {<<\h60>>, <<\h48, \h68, \h60>>}
CallSpValues == {\h00, \h01, \hFD, \hFF}
CallAValues == {\h55, \h80}

\* The bytes of a sequence at offset off and on, as a function of the offset.
BytesAt(off, bytes) == [i \in off..(off + Len(bytes) - 1) |-> bytes[i - off + 1]]

\* A program of CallLen bytes that holds the given cells and zero elsewhere.
Holding(cells) ==
    [len |-> CallLen, bytes |-> [i \in {j \in DOMAIN cells : cells[j] # 0} |-> cells[i]]]

CallProgram(p, t, body) ==
    Holding(BytesAt(p - LOAD_BASE, <<\h20, t % 256, t \div 256>>)
                @@ BytesAt(t - LOAD_BASE, body))

CallStart(program, p, s, a) ==
    [reset(mem_write_u16(load(new, program), RESET_VECTOR, p))
        EXCEPT !.sp = s, !.reg_a = a]

\* The call at the highest address a JSR fits at: the program is JMP $FFFC
\* and the subroutine, and the caller writes JSR t to 0xFFFC..0xFFFE after
\* the reset.
TopCall == \hFFFC
TopCallTarget == \h8200

TopCallStart(body, s, a) ==
    [mem_write_u16(
        mem_write(
            reset(load(new, Holding(BytesAt(0, <<\h4C, TopCall % 256, TopCall \div 256>>)
                                        @@ BytesAt(TopCallTarget - LOAD_BASE, body)))),
            TopCall, \h20),
        TopCall + 1, TopCallTarget)
        EXCEPT !.sp = s, !.reg_a = a]

CallStarts(p, s, a) ==
    {CallStart(CallProgram(p, t, body), p, s, a) : t \in CallTargets(p), body \in CallBodies}
        \cup {CallStart(Holding(BytesAt(p - LOAD_BASE, <<\h48, \h68>>)), p, s, a)}
        \cup {TopCallStart(body, s, a) : body \in CallBodies}

InitCall ==
    /\ \E p \in CallAddresses, s \in CallSpValues, a \in CallAValues :
        \E c \in CallStarts(p, s, a) :
            /\ Is(c)
            /\ entry = Fields(c)
    /\ phase = "running"
    /\ steps = 0
    /\ pokes = 0
    /\ last = [op |-> "run"]
    /\ pre = [op |-> "new"]

NextCall == Step

SpecCall == InitCall /\ [][NextCall]_vars


-----------------------------------------------------------------------------
(* What the claims say of an iteration of the loop, in terms of the CPU    *)
(* before it (pre), the CPU after it, and what the iteration saw (last).   *)

\* The last action was an iteration of the loop that ran to its end.
Stepped == last.op = "step" /\ fatal = NoFatal

HasFlag(bits, flag) == (bits \div flag) % 2 = 1

\* The byte in cell a, and the little-endian word in cells a and a + 1.
ByteIn(m, a) == MemAt(m, a)
WordIn(m, a) == MemAt(m, a) + 256 * MemAt(m, a + 1)

\* The bytes at base, base + 1, ... of memory m are those of the sequence.
HoldsAt(m, base, bytes) == \A i \in 1..Len(bytes) : MemAt(m, base + i - 1) = bytes[i]

\* The opcodes whose match arm assigns pc: JMP absolute, JMP indirect, JSR,
\* RTS and RTI.
PcWriters == {\h4C, \h6C, \h20, \h60, \h40}

\* A branch opcode whose condition holds in the status byte.
BranchTaken(code, bits) ==
    CASE code = \h10 -> ~HasFlag(bits, NEGATIVE)
      [] code = \h30 -> HasFlag(bits, NEGATIVE)
      [] code = \h50 -> ~HasFlag(bits, OVERFLOW)
      [] code = \h70 -> HasFlag(bits, OVERFLOW)
      [] code = \h90 -> ~HasFlag(bits, CARRY)
      [] code = \hB0 -> HasFlag(bits, CARRY)
      [] code = \hD0 -> ~HasFlag(bits, ZERO)
      [] code = \hF0 -> HasFlag(bits, ZERO)
      [] OTHER -> FALSE

\* The program LDA #v; TAX; INX; BRK was at the load address when the loop
\* was entered, and the loop has returned from its BRK.
RanLoadTaxInx ==
    /\ phase = "returned"
    /\ steps = 4
    /\ entry.pc = LOAD_BASE
    /\ ByteIn(entry.memory, LOAD_BASE) = \hA9
    /\ HoldsAt(entry.memory, LOAD_BASE + 2, <<\hAA, \hE8, \h00>>)

\* C1: an iteration of the run loop on an instruction whose handler does not
\* write pc (every opcode but JMP, JSR, RTS, RTI and a taken branch), started
\* with pc = p, ends with pc = p + the opcode's length in the table, as a u16;
\* and the program LDA #v; TAX; INX; BRK run from reset ends with A = v,
\* X = (v + 1) mod 256 and pc just past the BRK.
C1_PcAdvancesByLength ==
    /\ (Stepped /\ last.code \notin PcWriters /\ ~BranchTaken(last.code, pre.status))
          => pc = (pre.pc + OPCODES_MAP[last.code].len) % 65536
    /\ RanLoadTaxInx
          => /\ reg_a = ByteIn(entry.memory, LOAD_BASE + 1)
             /\ reg_x = (ByteIn(entry.memory, LOAD_BASE + 1) + 1) % 256
             /\ pc = LOAD_BASE + 5

\* C1's case: LDA #0xC0; TAX; INX; BRK has run in byte order, leaving
\* A = 0xC0, X = 0xC1 and pc past the BRK.
C1_Witness ==
    /\ RanLoadTaxInx
    /\ ByteIn(entry.memory, LOAD_BASE + 1) = \hC0
    /\ Stepped
    /\ reg_a = \hC0
    /\ reg_x = \hC1
    /\ pc = LOAD_BASE + 5

\* C2: after an iteration on JMP (absolute or indirect), JSR, RTS or RTI, pc
\* is exactly the target the handler assigned to it; nothing is added on top,
\* whatever the target is.
C2_PcIsHandlerTarget ==
    (Stepped /\ last.code \in PcWriters) => pc = last.handler_pc

\* The opcodes that define a result byte, by where they store it.
AccumulatorResults ==
    {\hA9, \hA5, \hB5, \hAD, \hBD, \hB9, \hA1, \hB1, \h8A, \h98, \h68,
     \h29, \h25, \h35, \h2D, \h3D, \h39, \h21, \h31,
     \h49, \h45, \h55, \h4D, \h5D, \h59, \h41, \h51,
     \h09, \h05, \h15, \h0D, \h1D, \h19, \h01, \h11,
     \h69, \h65, \h75, \h6D, \h7D, \h79, \h61, \h71,
     \hE9, \hE5, \hF5, \hED, \hFD, \hF9, \hE1, \hF1,
     \h0A, \h4A, \h2A, \h6A}
XResults == {\hA2, \hA6, \hB6, \hAE, \hBE, \hAA, \hBA, \hE8, \hCA}
YResults == {\hA0, \hA4, \hB4, \hAC, \hBC, \hA8, \hC8, \h88}
MemoryResults ==
    {\hE6, \hF6, \hEE, \hFE, \hC6, \hD6, \hCE, \hDE,
     \h06, \h16, \h0E, \h1E, \h46, \h56, \h4E, \h5E,
     \h26, \h36, \h2E, \h3E, \h66, \h76, \h6E, \h7E}
ResultCodes == AccumulatorResults \cup XResults \cup YResults \cup MemoryResults

\* The result byte of the last iteration, read from where it was stored.
ResultByte ==
    CASE last.code \in AccumulatorResults -> reg_a
      [] last.code \in XResults -> reg_x
      [] last.code \in YResults -> reg_y
      [] OTHER -> MemAt(memory, last.addr)

\* C3: after an instruction that defines a result byte r (loads, transfers
\* but TXS, increments and decrements, AND/EOR/ORA, ADC/SBC, shifts and
\* rotates, PLA), Zero is set iff r = 0 and Negative is set iff bit 7 of r is
\* set, r being the byte now in the destination register or memory cell.
C3_ZeroNegativeFromResult ==
    (Stepped /\ last.code \in ResultCodes)
        => /\ HasFlag(status, ZERO) <=> ResultByte = 0
           /\ HasFlag(status, NEGATIVE) <=> ResultByte >= 128

\* C3's case: LDA #0x80 has stored 0x80, the smallest byte with bit 7 set,
\* and Negative is set and Zero clear.
C3_Witness ==
    /\ Stepped
    /\ last.code = \hA9
    /\ reg_a = \h80
    /\ HasFlag(status, NEGATIVE)
    /\ ~HasFlag(status, ZERO)

\* The carry into the last iteration, and a byte as a signed 8-bit number.
CarryIn == IF HasFlag(pre.status, CARRY) THEN 1 ELSE 0
Signed(b) == IF b >= 128 THEN b - 256 ELSE b

\* a + m + c of the last iteration, unsigned and signed.
AdcSum == pre.reg_a + MemAt(pre.memory, last.addr) + CarryIn
AdcSignedSum == Signed(pre.reg_a) + Signed(MemAt(pre.memory, last.addr)) + CarryIn

\* C4: ADC leaves (a + m + c) mod 256 in the accumulator, sets Carry iff
\* a + m + c > 0xFF, and sets Overflow iff ((m XOR result) AND (result XOR a)
\* AND 0x80) != 0, which is iff the signed sum of a, m and c is outside
\* [-128, 127]; a = 0x7F, m = 1, c = 0 gives 0x80 with Carry clear, Overflow
\* set, Negative set and Zero clear.
C4_AdcResultCarryOverflow ==
    (Stepped /\ last.code \in {\h69, \h65, \h75, \h6D, \h7D, \h79, \h61, \h71})
        => /\ reg_a = AdcSum % 256
           /\ HasFlag(status, CARRY) <=> AdcSum > 255
           /\ HasFlag(status, OVERFLOW)
                <=> BitAnd(BitAnd(BitXor(MemAt(pre.memory, last.addr), reg_a),
                                  BitXor(reg_a, pre.reg_a)), \h80) # 0
           /\ HasFlag(status, OVERFLOW) <=> (AdcSignedSum < -128 \/ AdcSignedSum > 127)
           /\ (pre.reg_a = \h7F /\ MemAt(pre.memory, last.addr) = 1 /\ CarryIn = 0)
                => /\ reg_a = \h80
                   /\ ~HasFlag(status, CARRY)
                   /\ HasFlag(status, OVERFLOW)
                   /\ HasFlag(status, NEGATIVE)
                   /\ ~HasFlag(status, ZERO)

\* C4's case: ADC #1 on accumulator 0x7F with Carry clear has left 0x80 with
\* Overflow set.
C4_Witness ==
    /\ Stepped
    /\ last.code = \h69
    /\ pre.reg_a = \h7F
    /\ MemAt(pre.memory, last.addr) = 1
    /\ CarryIn = 0
    /\ reg_a = \h80
    /\ HasFlag(status, OVERFLOW)


\* C5: for every 16-bit value v and every address a that indexes the memory
\* array (a < its length 0xFFFF), mem_write_u16(a, v) ends without a fatal
\* condition with the low byte at a and the high byte at a + 1, and
\* mem_read_u16(a) after it ends without a fatal condition and returns v.
C5_WordRoundTrip ==
    /\ (last.op = "mem_write_u16" /\ last.pos < MEMORY_LEN)
          => /\ fatal = NoFatal
             /\ MemAt(memory, last.pos) = last.data % 256
             /\ MemAt(memory, last.pos + 1) = last.data \div 256
    /\ (last.op = "mem_read_u16" /\ last.pos < MEMORY_LEN)
          => /\ fatal = NoFatal
             /\ last.val = last.data

\* The pointer operand q of the JMP indirect of the last iteration.
JmpPointer == WordIn(pre.memory, last.pc_state)

\* C6: JMP indirect with pointer operand q leaves pc = mem[q] + 256 *
\* mem[q AND 0xFF00] if the low byte of q is 0xFF, and pc = mem[q] + 256 *
\* mem[q + 1] otherwise.
C6_JmpIndirectTarget ==
    (Stepped /\ last.code = \h6C)
        => pc = IF JmpPointer % 256 = \hFF
                THEN ByteIn(pre.memory, JmpPointer)
                        + 256 * ByteIn(pre.memory, JmpPointer - \hFF)
                ELSE WordIn(pre.memory, JmpPointer)

\* The operand byte and the operand word of the last iteration.
OperandByte == ByteIn(pre.memory, last.pc_state)
OperandWord == WordIn(pre.memory, last.pc_state)

\* The address an indexed mode is to give for the last iteration.
IndexedAddress ==
    CASE last.mode = ZeroPageX -> (OperandByte + pre.reg_x) % 256
      [] last.mode = ZeroPageY -> (OperandByte + pre.reg_y) % 256
      [] last.mode = AbsoluteX -> (OperandWord + pre.reg_x) % 65536
      [] last.mode = AbsoluteY -> (OperandWord + pre.reg_y) % 65536

IndexedModes == {ZeroPageX, ZeroPageY, AbsoluteX, AbsoluteY}

\* C7: ZeroPageX resolves to (b + X) mod 256 and ZeroPageY to (b + Y) mod
\* 256, b being the operand byte at pc, so the address is in 0x0000..0x00FF;
\* AbsoluteX and AbsoluteY resolve to (word at pc + index) mod 65536; the
\* resolver leaves pc as it was; and the instruction acts on that address: a
\* store leaves its register there, LDA loads the byte that was there.
C7_IndexedAddressesWrap ==
    Stepped =>
        /\ last.mode \in IndexedModes => last.addr = IndexedAddress
        /\ last.mode \in {ZeroPageX, ZeroPageY} => last.addr \in 0..255
        /\ last.mode # NoneAddressing => last.addr_pc = last.pc_state
        /\ last.code \in {\h95, \h9D, \h99} => MemAt(memory, IndexedAddress) = pre.reg_a
        /\ last.code = \h96 => MemAt(memory, IndexedAddress) = pre.reg_x
        /\ last.code = \h94 => MemAt(memory, IndexedAddress) = pre.reg_y
        /\ last.code \in {\hB5, \hBD, \hB9} => reg_a = MemAt(pre.memory, IndexedAddress)

\* C7's case: STA $FF,X with X = 1 has resolved to 0x0000 and stored the
\* accumulator 0x55 there, with nothing stored at 0x0100.
C7_Witness ==
    /\ Stepped
    /\ last.code = \h95
    /\ OperandByte = \hFF
    /\ pre.reg_x = \h01
    /\ pre.reg_a = \h55
    /\ last.addr = 0
    /\ MemAt(memory, \h0000) = \h55
    /\ MemAt(memory, \h0100) = 0

\* The loop was entered at the load address with INX in each of the k bytes
\* from there.
InxFirst(k) ==
    /\ entry.pc = LOAD_BASE
    /\ \A i \in 0..(k - 1) : ByteIn(entry.memory, LOAD_BASE + i) = \hE8

\* C8: INX, INY and INC replace their target by (old + 1) mod 256, DEX, DEY
\* and DEC by (old - 1) mod 256; a result 0x00 comes with Zero set and a
\* result 0xFF with Negative set; and k INX in a row from X = x leave
\* X = (x + k) mod 256, also once the BRK after them has returned.
C8_IncDecWrap ==
    /\ Stepped =>
        /\ last.code = \hE8 => reg_x = (pre.reg_x + 1) % 256
        /\ last.code = \hC8 => reg_y = (pre.reg_y + 1) % 256
        /\ last.code \in {\hE6, \hF6, \hEE, \hFE}
              => MemAt(memory, last.addr) = (MemAt(pre.memory, last.addr) + 1) % 256
        /\ last.code = \hCA => reg_x = (pre.reg_x + 255) % 256
        /\ last.code = \h88 => reg_y = (pre.reg_y + 255) % 256
        /\ last.code \in {\hC6, \hD6, \hCE, \hDE}
              => MemAt(memory, last.addr) = (MemAt(pre.memory, last.addr) + 255) % 256
        /\ last.code \in {\hE8, \hC8, \hE6, \hF6, \hEE, \hFE, \hCA, \h88, \hC6, \hD6, \hCE, \hDE}
              => /\ ResultByte = \h00 => HasFlag(status, ZERO)
                 /\ ResultByte = \hFF => HasFlag(status, NEGATIVE)
    /\ (phase = "running" /\ fatal = NoFatal /\ InxFirst(steps))
          => reg_x = (entry.reg_x + steps) % 256
    /\ (phase = "returned" /\ fatal = NoFatal /\ InxFirst(steps - 1))
          => reg_x = (entry.reg_x + steps - 1) % 256

\* C8's case: INX; INX; BRK entered with X = 0xFF has returned with X = 1.
C8_Witness ==
    /\ phase = "returned"
    /\ steps = 3
    /\ InxFirst(2)
    /\ entry.reg_x = \hFF
    /\ Stepped
    /\ reg_x = 1

\* C9: reset leaves A = X = Y = 0, sp = 0xFD, the status byte 0b0010_0100 and
\* pc = mem[0xFFFC] + 256 * mem[0xFFFD], changes no memory cell and raises
\* no fatal condition; a second reset changes nothing.
C9_ResetState ==
    last.op = "reset"
        => /\ fatal = NoFatal
           /\ reg_a = 0
           /\ reg_x = 0
           /\ reg_y = 0
           /\ sp = \hFD
           /\ status = \h24
           /\ pc = WordIn(pre.memory, \hFFFC)
           /\ memory = pre.memory
           /\ Fields(reset(Self(TRUE))) = Fields(Self(TRUE))

\* C9's case: reset after a run that left A, Y and the status byte away from
\* their reset values, with the reset vector rewritten to 0x8010.
C9_Witness ==
    /\ last.op = "reset"
    /\ pre.reg_a # 0
    /\ pre.reg_y # 0
    /\ pre.status # \h24
    /\ WordIn(pre.memory, \hFFFC) = \h8010
    /\ pc = \h8010
    /\ reg_y = 0

\* What load(program) is to leave for a program of up to n bytes.
LoadedUpTo(n) ==
    (last.op = "load" /\ last.program.len <= n)
        => /\ fatal = NoFatal
           /\ \A i \in 0..(last.program.len - 1) :
                 MemAt(memory, LOAD_BASE + i) = ProgramAt(last.program, i)
           /\ MemAt(memory, \hFFFC) = \h00
           /\ MemAt(memory, \hFFFD) = \h80
           /\ reg_a = pre.reg_a
           /\ reg_x = pre.reg_x
           /\ reg_y = pre.reg_y
           /\ sp = pre.sp
           /\ pc = pre.pc
           /\ status = pre.status

\* The reset that follows a load sets pc = 0x8000.
ResetAfterLoad == (last.op = "reset" /\ phase = "ready") => pc = \h8000

\* C10 as stated: for every program of length n <= 0x7FFF, load leaves
\* mem[0x8000 + i] = program[i] for 0 <= i < n, 0x00 at 0xFFFC and 0x80 at
\* 0xFFFD, and the registers and flags as they were; the reset after it sets
\* pc = 0x8000.
C10_LoadUpTo7FFF == LoadedUpTo(\h7FFF) /\ ResetAfterLoad

\* C10 amended: the same for every program of length n <= 0x7FFC, the
\* longest that ends below the reset vector.
C10_LoadUpTo7FFC == LoadedUpTo(\h7FFC) /\ ResetAfterLoad

\* C10's case: a program of 0x7FFC bytes is loaded, its last byte at 0xFFFB
\* and the reset vector after it.
C10_Witness ==
    /\ last.op = "load"
    /\ last.program.len = \h7FFC
    /\ fatal = NoFatal
    /\ MemAt(memory, \hFFFB) = \hEA
    /\ MemAt(memory, \hFFFD) = \h80


\* The last action left the accumulator, X, Y, sp, the status byte and every
\* memory cell as they were.
Untouched ==
    /\ reg_a = pre.reg_a
    /\ reg_x = pre.reg_x
    /\ reg_y = pre.reg_y
    /\ sp = pre.sp
    /\ status = pre.status
    /\ memory = pre.memory

\* C11: the run loop returns in an iteration if and only if the opcode byte
\* that iteration fetched is 0x00; it then returns in that same iteration
\* with pc one past the 0x00 byte and with A, X, Y, sp, the status byte and
\* memory as they were before it.
C11_ReturnsOnlyOnBrk ==
    /\ phase = "returned" => last.op = "step"
    /\ last.op = "step" =>
        /\ phase = "returned"
              <=> (fatal = NoFatal /\ ByteIn(pre.memory, pre.pc) = \h00)
        /\ phase = "returned" => (pc = pre.pc + 1 /\ Untouched)

\* C11's case: the loop has returned from a 0x00 fetched after an earlier
\* instruction left a non-zero accumulator.
C11_Witness ==
    /\ phase = "returned"
    /\ steps >= 2
    /\ ByteIn(pre.memory, pre.pc) = \h00
    /\ pre.reg_a # 0
    /\ reg_a = pre.reg_a
    /\ pc = pre.pc + 1

\* C12: an iteration that fetches a byte with no entry in the opcode table
\* ends in the fatal condition "opcode not recognized": A, X, Y, sp, the
\* status byte and memory are as they were before it, and no further
\* iteration (or any other action) follows.
C12_UnrecognizedOpcodeIsFatal ==
    (/\ last.op = "step"
     /\ pre.pc < MEMORY_LEN
     /\ ByteIn(pre.memory, pre.pc) \notin DOMAIN OPCODES_MAP)
        => /\ fatal = OpcodeNotRecognized
           /\ Untouched
           /\ phase = "panicked"
           /\ ~ENABLED Next

\* C12's case: the byte 0x02, which has no entry, was fetched with a non-zero
\* accumulator, and the program has ended in the fatal condition.
C12_Witness ==
    /\ last.op = "step"
    /\ ByteIn(pre.memory, pre.pc) = \h02
    /\ pre.reg_a # 0
    /\ reg_a = pre.reg_a
    /\ fatal = OpcodeNotRecognized


\* C13: from load and reset of any program, with nothing assigned or written
\* by the caller and the hook of run(), the loop never indexes memory outside
\* the array and no pc or address computation fails: the program never ends
\* in the fatal condition "index out of bounds" or "arithmetic overflow".
C13_NoOutOfRange ==
    pokes = 0 => fatal \notin {IndexOutOfBounds, ArithmeticOverflow}


StaCodes == {\h85, \h95, \h8D, \h9D, \h99, \h81, \h91}
StxCodes == {\h86, \h96, \h8E}
StyCodes == {\h84, \h94, \h8C}

StoredRegister ==
    CASE last.code \in StaCodes -> pre.reg_a
      [] last.code \in StxCodes -> pre.reg_x
      [] OTHER -> pre.reg_y

\* Every memory cell but cell a is as it was before the last action.
OnlyCellChanged(a) ==
    \A x \in (DOMAIN memory \cup DOMAIN pre.memory) \ {a} :
        MemAt(memory, x) = MemAt(pre.memory, x)

\* C15: STA, STX and STY leave the value of A, X or Y in the cell at the
\* resolved address and change nothing else: the status byte, A, X, Y, sp and
\* every other memory cell are as before; STA $10; BRK entered with A = a
\* returns with mem[0x0010] = a.
C15_StoresChangeOnlyTheCell ==
    /\ (Stepped /\ last.code \in StaCodes \cup StxCodes \cup StyCodes)
          => /\ MemAt(memory, last.addr) = StoredRegister
             /\ OnlyCellChanged(last.addr)
             /\ status = pre.status
             /\ reg_a = pre.reg_a
             /\ reg_x = pre.reg_x
             /\ reg_y = pre.reg_y
             /\ sp = pre.sp
    /\ (/\ phase = "returned"
        /\ steps = 2
        /\ entry.pc = LOAD_BASE
        /\ HoldsAt(entry.memory, LOAD_BASE, <<\h85, \h10, \h00>>))
          => MemAt(memory, \h0010) = entry.reg_a

\* C15's case: STA $10; BRK entered with A = 0x55 and another byte in cell
\* 0x0010 has returned with mem[0x0010] = 0x55 and the status byte as it was.
C15_Witness ==
    /\ phase = "returned"
    /\ steps = 2
    /\ entry.pc = LOAD_BASE
    /\ HoldsAt(entry.memory, LOAD_BASE, <<\h85, \h10, \h00>>)
    /\ entry.reg_a = \h55
    /\ MemAt(entry.memory, \h0010) = \h80
    /\ MemAt(memory, \h0010) = \h55
    /\ status = entry.status


\* The branch opcodes: BPL, BMI, BVC, BVS, BCC, BCS, BNE, BEQ.
BranchCodes == {\h10, \h30, \h50, \h70, \h90, \hB0, \hD0, \hF0}

\* C16: a branch opcode at address p with operand byte o leaves pc at
\* (p + 2 + signed8(o)) mod 65536 when its flag condition holds, for every o
\* (0xFF and 0x00 included), and at p + 2 when it does not; no register, flag
\* or memory cell changes.
C16_BranchTarget ==
    (Stepped /\ last.code \in BranchCodes)
        => /\ pc = IF BranchTaken(last.code, pre.status)
                   THEN (pre.pc + 2 + Signed(OperandByte)) % 65536
                   ELSE pre.pc + 2
           /\ Untouched


\* The zero-page slot of IndirectX in the last iteration, and the little-endian
\* word in zero-page cells s and (s + 1) mod 256.
IndirectSlot == (OperandByte + pre.reg_x) % 256
ZeroPageWord(m, s) == MemAt(m, s) + 256 * MemAt(m, (s + 1) % 256)

\* C17: IndirectX, with slot s = (b + X) mod 256, resolves to the
\* little-endian word at s, mem[s] + 256 * mem[(s + 1) mod 256]; IndirectY
\* resolves to (mem[b] + 256 * mem[(b + 1) mod 256] + Y) mod 65536.
C17_IndirectAddresses ==
    /\ (Stepped /\ last.mode = IndirectX)
          => last.addr = ZeroPageWord(pre.memory, IndirectSlot)
    /\ (Stepped /\ last.mode = IndirectY)
          => last.addr = (ZeroPageWord(pre.memory, OperandByte) + pre.reg_y) % 65536


\* The opcodes that push one byte (PHA, PHP) and that pop one byte into a
\* register (PLA, PLP); JSR pushes two bytes, RTS pops two, RTI pops three.
PushCodes == {\h48, \h08}
PopCodes == {\h68, \h28}

\* The page of the stack slot for the stack pointer at reset.
StackPage == (STACK + STACK_RESET) \div 256

InStackPage(a) == a \div 256 = StackPage /\ StackPage # 0

\* The byte a one-byte push is to store, and the register byte a one-byte pop
\* is to leave (PLP clears Break and sets Break2 in it).
PushedByte == IF last.code = \h48 THEN pre.reg_a ELSE BitOr(BitOr(pre.status, BREAK), BREAK2)
PoppedInto(b) == IF last.code = \h68 THEN reg_a = b ELSE status = BitOr(b - BitAnd(b, BREAK), BREAK2)

\* C18: for every value of sp, a push writes and a pop reads an address of one
\* fixed 256-byte page that is not the zero page; a push stores at the slot
\* for sp and then decrements sp mod 256, a pop increments sp mod 256 and then
\* reads the slot for the new sp.
C18_StackInOnePage ==
    /\ (Stepped /\ last.code \in PushCodes)
          => /\ MemAt(memory, STACK + pre.sp) = PushedByte
             /\ OnlyCellChanged(STACK + pre.sp)
             /\ sp = (pre.sp + 255) % 256
             /\ InStackPage(STACK + pre.sp)
    /\ (Stepped /\ last.code \in PopCodes)
          => /\ sp = (pre.sp + 1) % 256
             /\ PoppedInto(MemAt(pre.memory, STACK + sp))
             /\ InStackPage(STACK + sp)
    /\ (Stepped /\ last.code = \h20)
          => /\ sp = (pre.sp + 254) % 256
             /\ InStackPage(STACK + pre.sp)
             /\ InStackPage(STACK + ((pre.sp + 255) % 256))
    /\ (Stepped /\ last.code = \h60)
          => /\ sp = (pre.sp + 2) % 256
             /\ InStackPage(STACK + sp)
             /\ InStackPage(STACK + ((sp + 255) % 256))
    /\ (Stepped /\ last.code = \h40)
          => /\ sp = (pre.sp + 3) % 256
             /\ InStackPage(STACK + sp)
             /\ InStackPage(STACK + ((sp + 255) % 256))
             /\ InStackPage(STACK + ((sp + 254) % 256))


\* A status byte with Break and Break2 set, and one with Break cleared and
\* Break2 set; the six other flags of a status byte.
WithBreakBits(b) == BitOr(BitOr(b, BREAK), BREAK2)
Restored(b) == BitOr(b - BitAnd(b, BREAK), BREAK2)
SixFlags(b) == b - BitAnd(b, BREAK) - BitAnd(b, BREAK2)

\* C19: PHP pushes the status byte with Break and Break2 set and leaves the
\* status register as it was; PLP and RTI load the popped byte into the status
\* register with Break cleared, Break2 set and the six other bits as popped;
\* PHP; PLP leaves Carry, Zero, InterruptDisable, DecimalMode, Overflow and
\* Negative as they were and restores sp.
C19_StatusThroughStack ==
    /\ (Stepped /\ last.code = \h08)
          => /\ MemAt(memory, STACK + pre.sp) = WithBreakBits(pre.status)
             /\ status = pre.status
    /\ (Stepped /\ last.code \in {\h28, \h40})
          => /\ status = Restored(MemAt(pre.memory, STACK + ((pre.sp + 1) % 256)))
             /\ SixFlags(status) = SixFlags(MemAt(pre.memory, STACK + ((pre.sp + 1) % 256)))
             /\ ~HasFlag(status, BREAK)
             /\ HasFlag(status, BREAK2)
    /\ (/\ last.op = "step"
        /\ fatal = NoFatal
        /\ steps = 2
        /\ entry.pc = LOAD_BASE
        /\ HoldsAt(entry.memory, LOAD_BASE, <<\h08, \h28>>)
        /\ pc = LOAD_BASE + 2)
          => /\ SixFlags(status) = SixFlags(entry.status)
             /\ sp = entry.sp

\* C19's case: PHP; PLP; BRK entered with status 0xE7 has returned with the
\* byte 0xF7 in the stack slot, the six flags as they were and sp restored.
C19_Witness ==
    /\ phase = "returned"
    /\ steps = 3
    /\ entry.pc = LOAD_BASE
    /\ HoldsAt(entry.memory, LOAD_BASE, <<\h08, \h28, \h00>>)
    /\ entry.status = \hE7
    /\ MemAt(memory, STACK + entry.sp) = \hF7
    /\ status = \hE7
    /\ sp = entry.sp


\* The compare opcodes (CMP, CPX, CPY), the register each one compares, as it
\* was before the iteration, and the operand byte it reads.
CmpOpcodes == {\hC9, \hC5, \hD5, \hCD, \hDD, \hD9, \hC1, \hD1}
CpxOpcodes == {\hE0, \hE4, \hEC}
CpyOpcodes == {\hC0, \hC4, \hCC}

ComparedRegister ==
    CASE last.code \in CmpOpcodes -> pre.reg_a
      [] last.code \in CpxOpcodes -> pre.reg_x
      [] OTHER -> pre.reg_y

ComparedOperand == MemAt(pre.memory, last.addr)

\* C20: CMP, CPX and CPY, for every register value r and operand m, set Carry
\* iff r >= m, Zero iff r = m and Negative to bit 7 of (r - m) mod 256, and
\* leave the compared register, the other registers, Overflow and memory as
\* they were.
C20_CompareFlags ==
    (Stepped /\ last.code \in CmpOpcodes \cup CpxOpcodes \cup CpyOpcodes)
        => /\ HasFlag(status, CARRY) <=> ComparedRegister >= ComparedOperand
           /\ HasFlag(status, ZERO) <=> ComparedRegister = ComparedOperand
           /\ HasFlag(status, NEGATIVE)
                <=> (ComparedRegister + 256 - ComparedOperand) % 256 >= 128
           /\ HasFlag(status, OVERFLOW) <=> HasFlag(pre.status, OVERFLOW)
           /\ reg_a = pre.reg_a
           /\ reg_x = pre.reg_x
           /\ reg_y = pre.reg_y
           /\ sp = pre.sp
           /\ memory = pre.memory

\* C20's case: CPX #5 with X = 5 and Carry and Zero clear has set Carry and
\* Zero and left X = 5.
C20_Witness ==
    /\ Stepped
    /\ last.code = \hE0
    /\ pre.reg_x = 5
    /\ ComparedOperand = 5
    /\ ~HasFlag(pre.status, CARRY)
    /\ ~HasFlag(pre.status, ZERO)
    /\ HasFlag(status, CARRY)
    /\ HasFlag(status, ZERO)
    /\ reg_x = 5


\* The SBC opcodes, the operand byte of the last iteration and its
\* complement, and the sum ADC forms with the complement, unsigned and signed.
SbcOpcodes == {\hE9, \hE5, \hF5, \hED, \hFD, \hF9, \hE1, \hF1}
SbcOperand == MemAt(pre.memory, last.addr)
SbcComplement == 255 - SbcOperand
SbcSum == pre.reg_a + SbcComplement + CarryIn
SbcSignedSum == Signed(pre.reg_a) + Signed(SbcComplement) + CarryIn

\* C21: SBC with operand m gives, for every accumulator a, operand m and
\* incoming Carry c, the accumulator, Carry, Overflow, Zero and Negative that
\* ADC gives with operand 255 - m; the accumulator is (a - m - (1 - c)) mod
\* 256 and Carry is set iff a >= m + (1 - c).
C21_SbcIsAdcOfComplement ==
    (Stepped /\ last.code \in SbcOpcodes)
        => /\ reg_a = SbcSum % 256
           /\ HasFlag(status, CARRY) <=> SbcSum > 255
           /\ HasFlag(status, OVERFLOW)
                <=> BitAnd(BitAnd(BitXor(SbcComplement, reg_a),
                                  BitXor(reg_a, pre.reg_a)), \h80) # 0
           /\ HasFlag(status, OVERFLOW) <=> (SbcSignedSum < -128 \/ SbcSignedSum > 127)
           /\ HasFlag(status, ZERO) <=> SbcSum % 256 = 0
           /\ HasFlag(status, NEGATIVE) <=> SbcSum % 256 >= 128
           /\ reg_a = (pre.reg_a + 512 - SbcOperand - (1 - CarryIn)) % 256
           /\ HasFlag(status, CARRY) <=> pre.reg_a >= SbcOperand + (1 - CarryIn)

\* C21's case: SBC #0x80 on accumulator 0x00 with Carry clear has left 0x7F
\* with Carry clear.
C21_Witness ==
    /\ Stepped
    /\ last.code = \hE9
    /\ pre.reg_a = 0
    /\ SbcOperand = \h80
    /\ CarryIn = 0
    /\ reg_a = \h7F
    /\ ~HasFlag(status, CARRY)


\* The shift and rotation opcodes, accumulator variant first.
AslOpcodes == {\h0A, \h06, \h16, \h0E, \h1E}
LsrOpcodes == {\h4A, \h46, \h56, \h4E, \h5E}
RolOpcodes == {\h2A, \h26, \h36, \h2E, \h3E}
RorOpcodes == {\h6A, \h66, \h76, \h6E, \h7E}
AccumulatorShifts == {\h0A, \h4A, \h2A, \h6A}

\* The byte the last iteration shifted and the byte it left, in the
\* accumulator or in the cell at the resolved address.
ShiftInput ==
    IF last.code \in AccumulatorShifts THEN pre.reg_a ELSE MemAt(pre.memory, last.addr)
ShiftOutput ==
    IF last.code \in AccumulatorShifts THEN reg_a ELSE MemAt(memory, last.addr)

\* The byte and the Carry a shift of d with incoming carry c is to give.
ShiftResult(code, d, c) ==
    CASE code \in AslOpcodes -> (2 * d) % 256
      [] code \in LsrOpcodes -> d \div 2
      [] code \in RolOpcodes -> ((2 * d) % 256) + c
      [] code \in RorOpcodes -> (d \div 2) + (128 * c)
ShiftedOut(code, d) ==
    IF code \in AslOpcodes \cup RolOpcodes THEN d \div 128 ELSE d % 2

\* C22: ASL, LSR, ROL and ROR, on the accumulator and on memory, for every
\* input byte d and incoming Carry c: Carry becomes the bit shifted out (bit 7
\* for ASL and ROL, bit 0 for LSR and ROR); the result is (2d) mod 256 for
\* ASL, d div 2 for LSR, (2d) mod 256 + c for ROL and d div 2 + 128c for ROR;
\* Zero and Negative follow the result, so both variants of a family give the
\* same result and flags; ROL then ROR on the same operand restores the
\* operand and Carry.
C22_ShiftsAndRotations ==
    /\ (Stepped /\ last.code \in AslOpcodes \cup LsrOpcodes \cup RolOpcodes \cup RorOpcodes)
          => /\ ShiftOutput = ShiftResult(last.code, ShiftInput, CarryIn)
             /\ HasFlag(status, CARRY) <=> ShiftedOut(last.code, ShiftInput) = 1
             /\ HasFlag(status, ZERO) <=> ShiftResult(last.code, ShiftInput, CarryIn) = 0
             /\ HasFlag(status, NEGATIVE) <=> ShiftResult(last.code, ShiftInput, CarryIn) >= 128
    /\ (/\ Stepped
        /\ steps = 2
        /\ entry.pc = LOAD_BASE
        /\ HoldsAt(entry.memory, LOAD_BASE, <<\h2A, \h6A>>))
          => /\ reg_a = entry.reg_a
             /\ HasFlag(status, CARRY) <=> HasFlag(entry.status, CARRY)
    /\ (/\ Stepped
        /\ steps = 2
        /\ entry.pc = LOAD_BASE
        /\ HoldsAt(entry.memory, LOAD_BASE, <<\h26, \h10, \h66, \h10>>))
          => /\ MemAt(memory, \h0010) = MemAt(entry.memory, \h0010)
             /\ HasFlag(status, CARRY) <=> HasFlag(entry.status, CARRY)

\* C22's case: ROL $10; ROR $10 entered with 0x81 in the cell and Carry clear
\* has left 0x02 with Carry set after the first and 0x81 with Carry clear
\* after the second.
C22_Witness ==
    /\ Stepped
    /\ steps = 2
    /\ HoldsAt(entry.memory, LOAD_BASE, <<\h26, \h10, \h66, \h10>>)
    /\ MemAt(entry.memory, \h0010) = \h81
    /\ ~HasFlag(entry.status, CARRY)
    /\ MemAt(pre.memory, \h0010) = \h02
    /\ HasFlag(pre.status, CARRY)
    /\ MemAt(memory, \h0010) = \h81
    /\ ~HasFlag(status, CARRY)


\* The slot of the stack for stack pointer s, and the word whose low byte is
\* in the slot after s and whose high byte is in the one after that.
SlotOf(s) == STACK + (s % 256)
WordAbove(m, s) == MemAt(m, SlotOf(s + 1)) + 256 * MemAt(m, SlotOf(s + 2))

\* C23: a JSR at address p pushes the word p + 2, high byte first and then
\* low byte, and lowers sp by 2; the RTS that finds that word sets pc = p + 3,
\* so after a subroutine whose pushes and pops are balanced and that leaves
\* the two cells alone, pc = p + 3 and sp is as before the JSR; PHA followed
\* by PLA restores A and sp.
C23_CallReturnPairing ==
    /\ (Stepped /\ last.code = \h20)
          => /\ MemAt(memory, SlotOf(pre.sp)) = (pre.pc + 2) \div 256
             /\ MemAt(memory, SlotOf(pre.sp + 255)) = (pre.pc + 2) % 256
             /\ \A x \in (DOMAIN memory \cup DOMAIN pre.memory)
                            \ {SlotOf(pre.sp), SlotOf(pre.sp + 255)} :
                    MemAt(memory, x) = MemAt(pre.memory, x)
             /\ sp = (pre.sp + 254) % 256
    /\ (Stepped /\ last.code = \h60)
          => /\ pc = WordAbove(pre.memory, pre.sp) + 1
             /\ sp = (pre.sp + 2) % 256
    /\ (/\ Stepped
        /\ last.code = \h60
        /\ steps \in {2, 4}
        /\ ByteIn(entry.memory, entry.pc) = \h20
        /\ ByteIn(entry.memory, WordIn(entry.memory, entry.pc + 1)) \in {\h60, \h48})
          => /\ pc = entry.pc + 3
             /\ sp = entry.sp
    /\ (/\ Stepped
        /\ steps = 2
        /\ HoldsAt(entry.memory, entry.pc, <<\h48, \h68>>))
          => /\ reg_a = entry.reg_a
             /\ sp = entry.sp

\* C23's case: JSR at 0x80FE, entered with sp = 0x00, to a subroutine PHA;
\* PLA; RTS has pushed 0x81 at the slot for 0x00 and 0x00 at the slot for
\* 0xFF, and the RTS has set pc = 0x8101 with sp = 0x00 again.
C23_Witness ==
    /\ Stepped
    /\ last.code = \h60
    /\ steps = 4
    /\ entry.pc = \h80FE
    /\ entry.sp = 0
    /\ ByteIn(entry.memory, entry.pc) = \h20
    /\ MemAt(memory, SlotOf(0)) = \h81
    /\ MemAt(memory, SlotOf(255)) = 0
    /\ pc = \h8101
    /\ sp = 0


\* The Break and Break2 bits of a status byte.
BreakBits(b) == BitAnd(b, BREAK) + BitAnd(b, BREAK2)

\* C24: in every state reached from reset by running instructions, the status
\* register has Break2 set and Break clear: reset leaves it so, PLP and RTI
\* leave it so whatever byte they pop, and no other instruction changes
\* either bit.
C24_BreakBitsFixed ==
    /\ phase \in {"ready", "running", "returned", "panicked", "done"}
          => BreakBits(status) = BREAK2
    /\ last.op = "reset" => BreakBits(status) = BREAK2
    /\ (last.op = "step" /\ last.code \in {\h28, \h40}) => BreakBits(status) = BREAK2
    /\ (last.op = "step" /\ last.code \notin {\h28, \h40})
          => BreakBits(status) = BreakBits(pre.status)

\* C24's case: PLP has popped the byte 0xFF, in which Break is set, and has
\* left the status register with Break clear and Break2 set.
C24_Witness ==
    /\ Stepped
    /\ last.code = \h28
    /\ MemAt(pre.memory, SlotOf(pre.sp + 1)) = \hFF
    /\ status = \hEF

====
